---- MODULE Spec2Model ----
(***************************************************************************)
(* Model of the NECO accreditation back end: the accreditation lifecycle   *)
(* pass (app/core/scheduler.py), the role / state-lock gates               *)
(* (app/core/auth.py) and the data endpoints (app/api/v1/endpoints).       *)
(*                                                                         *)
(* The database is one record of tables; a table is a function from the    *)
(* primary keys that exist to their rows.  Every handler is an operator    *)
(* from (database, caller, inputs) to a response and the database after    *)
(* it, so the same handler is used by every specification below.           *)
(* db.query is given the meaning it has on a synchronous SQLAlchemy        *)
(* Session, which is how every handler uses it.                            *)
(***************************************************************************)
EXTENDS Integers, Sequences, FiniteSets, TLC

VARIABLES db, today, alerts, creds, lastPass, lastReq, npasses, nreqs, procs, smtp

vars == <<db, today, alerts, creds, lastPass, lastReq, npasses, nreqs, procs, smtp>>

(***************************************************************************)
(* Values                                                                  *)
(***************************************************************************)
\* Python's None for a nullable String column.
Null == "<null>"

\* Truthiness of an Optional[str]: None and "" are falsy.
Truthy(s) == s # Null /\ s # ""

ADMIN_EMAIL == "admin@neco.gov.ng"

ACCREDITED == "Accredited"
UNACCREDITED == "Unaccredited"

ROLE_ADMIN == "admin"
ROLE_HQ == "hq"
ROLE_STATE == "state"

(***************************************************************************)
(* Calendar dates.  School.accredited_date is a String column: k says what *)
(* the string holds ("null" = None, "empty" = "", "text" = not ISO, "iso"  *)
(* = "YYYY-MM-DD..." with the fields y, m, d as written, valid or not).    *)
(***************************************************************************)
NullDate == [k |-> "null", y |-> 0, m |-> 0, d |-> 0]
EmptyDate == [k |-> "empty", y |-> 0, m |-> 0, d |-> 0]
TextDate == [k |-> "text", y |-> 0, m |-> 0, d |-> 0]
IsoDate(y, m, d) == [k |-> "iso", y |-> y, m |-> m, d |-> d]

\* `if not school.accredited_date`
TruthyDate(s) == s.k # "null" /\ s.k # "empty"

IsLeap(y) == (y % 4 = 0) /\ ((y % 100 # 0) \/ (y % 400 = 0))

DaysInMonth(y, m) ==
    IF m = 2 THEN (IF IsLeap(y) THEN 29 ELSE 28)
    ELSE IF m \in {4, 6, 9, 11} THEN 30 ELSE 31

\* Days of the year before the first of month m.
DaysBeforeMonth(y, m) ==
    <<0, 31, 59, 90, 120, 151, 181, 212, 243, 273, 304, 334>>[m]
        + (IF m > 2 /\ IsLeap(y) THEN 1 ELSE 0)

DaysBeforeYear(y) ==
    365 * (y - 1) + ((y - 1) \div 4) - ((y - 1) \div 100) + ((y - 1) \div 400)

\* date.toordinal(): date subtraction and comparison go through it.
Ordinal(dt) == DaysBeforeYear(dt.y) + DaysBeforeMonth(dt.y, dt.m) + dt.d

ValidYMD(y, m, d) ==
    /\ y \in 1..9999
    /\ m \in 1..12
    /\ d >= 1
    /\ d <= DaysInMonth(y, m)

\* datetime.fromisoformat(s).date(): ValueError unless s is an ISO string
\* naming a real calendar day.
fromisoformat(s) ==
    IF s.k = "iso" /\ ValidYMD(s.y, s.m, s.d)
    THEN [ok |-> TRUE, date |-> [y |-> s.y, m |-> s.m, d |-> s.d]]
    ELSE [ok |-> FALSE, date |-> [y |-> 0, m |-> 0, d |-> 0]]

\* date + relativedelta(years=n): same month, the day clipped to the month's
\* length (29 February becomes 28 February in a common year).
ClipDay(y, m, d, dim) == [y |-> y, m |-> m, d |-> IF d > dim THEN dim ELSE d]

AddYears(dt, n) == ClipDay(dt.y + n, dt.m, dt.d, DaysInMonth(dt.y + n, dt.m))

\* datetime.now().isoformat() on day dt
NowIso(dt) == IsoDate(dt.y, dt.m, dt.d)

(***************************************************************************)
(* Tables                                                                  *)
(***************************************************************************)
\* A School / BECESchool row.  `name` stands for every column the lifecycle
\* and the gates never read (name, lga_code, custodian_code, status, ...).
SchoolRow(name, state_code, email, accreditation_status, accredited_date) ==
    [name |-> name, state_code |-> state_code, email |-> email,
     accreditation_status |-> accreditation_status,
     accredited_date |-> accredited_date]

StateRow(name, email, is_locked) ==
    [name |-> name, email |-> email, is_locked |-> is_locked]

\* An LGA / Custodian row.
ScopedRow(name, state_code) == [name |-> name, state_code |-> state_code]

UserRow(hashed_password, role, state_code, is_active) ==
    [hashed_password |-> hashed_password, role |-> role,
     state_code |-> state_code, is_active |-> is_active]

EmptyTable == [x \in {} |-> 0]

\* No request and no pass is in progress.
NoProcs == <<>>

\* The union of two sets, enumerated.
SetUnion(A, B) == UNION {A, B}

\* Permutations of a finite set: the orders in which a query without
\* ORDER BY may return its rows.
Perms(S) ==
    {f \in [1..Cardinality(S) -> S] : \A i, j \in 1..Cardinality(S) : f[i] = f[j] => i = j}

(***************************************************************************)
(* The lifecycle pass: app/core/scheduler.py                               *)
(***************************************************************************)
\* The thresholds as ranges: a label for every day at or below its mark.
ThresholdOf_Ranges(days_left) ==
    IF days_left <= 30 THEN [kind |-> "Threshold", label |-> "1 Month"]
    ELSE IF days_left <= 61 THEN [kind |-> "Threshold", label |-> "2 Months"]
    ELSE IF days_left <= 91 THEN [kind |-> "Threshold", label |-> "3 Months"]
    ELSE IF days_left <= 182 THEN [kind |-> "Threshold", label |-> "6 Months"]
    ELSE IF days_left <= 365 THEN [kind |-> "Threshold", label |-> "1 Year"]
    ELSE [kind |-> "NoAction", label |-> ""]

\* Lines 57-71: the exact-day thresholds.
ThresholdOf(days_left) ==
    IF days_left = 365 THEN [kind |-> "Threshold", label |-> "1 Year"]
    ELSE IF days_left = 182 THEN [kind |-> "Threshold", label |-> "6 Months"]
    ELSE IF days_left = 91 THEN [kind |-> "Threshold", label |-> "3 Months"]
    ELSE IF days_left = 61 THEN [kind |-> "Threshold", label |-> "2 Months"]
    ELSE IF days_left = 30 THEN [kind |-> "Threshold", label |-> "1 Month"]
    ELSE [kind |-> "NoAction", label |-> ""]

\* ClassifyAt with the expiry test written `today > expiry_date`.
ClassifyAt_StrictExpiry(t, e) ==
    IF t > e THEN [kind |-> "Expired", label |-> "EXPIRED"] ELSE ThresholdOf(e - t)

\* Lines 33 and 52: `today >= expiry_date`, else
\* days_left = (expiry_date - today).days; t and e are the two ordinals.
ClassifyAt(t, e) ==
    IF t >= e THEN [kind |-> "Expired", label |-> "EXPIRED"] ELSE ThresholdOf(e - t)

\* Lines 26-71: expiry_date = acc_date + relativedelta(years=5), the expiry
\* test, then the thresholds.
Classify(tdy, acc_date) == ClassifyAt(Ordinal(tdy), Ordinal(AddYears(acc_date, 5)))

\* Lines 39-42 and 74-77: the recipient list of an alert.
WithSchoolEmail(school) ==
    IF Truthy(school.email) THEN <<ADMIN_EMAIL, school.email>> ELSE <<ADMIN_EMAIL>>

\* Recipients without the lookup of the school's state.
Recipients_NoState(d, school) == WithSchoolEmail(school)

Recipients(d, school) ==
    IF school.state_code \in DOMAIN d.states /\ Truthy(d.states[school.state_code].email)
    THEN Append(WithSchoolEmail(school), d.states[school.state_code].email)
    ELSE WithSchoolEmail(school)

\* email_service.py lines 46-68 and 95-110, with the `except Exception`
\* clause left out: the failure of the SMTP exchange leaves the function.
SmtpSend_NoCatch(up, msg) ==
    [delivered |-> IF up THEN {msg} ELSE {}, ok |-> up, raised |-> ~up]

\* email_service.py lines 46-68 and 95-110: the SMTP exchange inside
\* try / except Exception.  With the server up the message is delivered and
\* the function returns True; otherwise the exception is caught, nothing is
\* delivered and it returns False.
SmtpSend(up, msg) ==
    [delivered |-> IF up THEN {msg} ELSE {}, ok |-> up, raised |-> FALSE]

\* The call send_accreditation_alert(recipients, name, expiry, time_left) of
\* pass n: the message handed to the mailer.
send_accreditation_alert(n, code, to, expiry, time_left) ==
    [pass |-> n, school |-> code, to |-> to, expiry |-> expiry, time_left |-> time_left]

\* A school the loop body leaves alone: no date (line 21), an exception
\* caught (line 82), no threshold today.
Untouched(school, outcome) ==
    [outcome |-> outcome, label |-> "", status |-> school.accreditation_status,
     sent |-> {}, raised |-> FALSE]

\* Act with the status change made on a threshold as well as on expiry.
Act_ThresholdFlips(n, code, school, c, to, expiry) ==
    IF c.kind \in {"Expired", "Threshold"}
    THEN [outcome |-> c.kind, label |-> c.label, status |-> UNACCREDITED,
          sent |-> {send_accreditation_alert(n, code, to, expiry, c.label)},
          raised |-> FALSE]
    ELSE Untouched(school, "NoAction")

\* Lines 33-45 and 73-79: what the body does with the classification c.
Act(n, code, school, c, to, expiry) ==
    IF c.kind = "Expired"
    THEN [outcome |-> "Expired", label |-> c.label, status |-> UNACCREDITED,
          sent |-> SmtpSend(smtp, send_accreditation_alert(n, code, to, expiry, "EXPIRED")).delivered,
          raised |-> SmtpSend(smtp, send_accreditation_alert(n, code, to, expiry, "EXPIRED")).raised]
    ELSE IF c.kind = "Threshold"
    THEN [outcome |-> "Threshold", label |-> c.label, status |-> school.accreditation_status,
          sent |-> SmtpSend(smtp, send_accreditation_alert(n, code, to, expiry, c.label)).delivered,
          raised |-> SmtpSend(smtp, send_accreditation_alert(n, code, to, expiry, c.label)).raised]
    ELSE Untouched(school, "NoAction")

\* TryBlock without the except clause: the ValueError leaves the loop body.
TryBlock_NoCatch(d, n, code, school, parsed, tdy) ==
    IF ~parsed.ok THEN [Untouched(school, "Error") EXCEPT !.raised = TRUE]
    ELSE Act(n, code, school, Classify(tdy, parsed.date), Recipients(d, school),
             AddYears(parsed.date, 5))

\* Lines 23-82: the try block.  A date that does not parse raises ValueError,
\* which `except Exception` catches: nothing is raised past the body.
TryBlock(d, n, code, school, parsed, tdy) ==
    IF ~parsed.ok THEN Untouched(school, "Error")
    ELSE [Act(n, code, school, Classify(tdy, parsed.date), Recipients(d, school),
              AddYears(parsed.date, 5)) EXCEPT !.raised = FALSE]

\* Lines 20-82: the loop body for one school of the query's result.
ProcessRow(d, n, code, school, tdy) ==
    IF ~TruthyDate(school.accredited_date) THEN Untouched(school, "Skipped")
    ELSE TryBlock(d, n, code, school, fromisoformat(school.accredited_date), tdy)

ProcessSchool(d, code, tdy, n) == ProcessRow(d, n, code, d.schools[code], tdy)

\* A query without the filter on accreditation_status.
AccreditedCodes_All(d) == DOMAIN d.schools

\* Line 16: the codes of the schools the pass loads.
AccreditedCodes(d) ==
    {c \in DOMAIN d.schools : d.schools[c].accreditation_status = ACCREDITED}

NotLoaded == [outcome |-> "NotLoaded", label |-> ""]

\* The session after the loop body ran for school `code` with result r.
Merge(acc, code, r) ==
    [schools |-> [acc.schools EXCEPT ![code].accreditation_status = r.status],
     sent |-> SetUnion(acc.sent, r.sent),
     outcomes |-> [acc.outcomes EXCEPT ![code] = [outcome |-> r.outcome, label |-> r.label]],
     raised |-> r.raised]

\* Lines 19-82: the for loop over the loaded schools, in the order given.
\* acc carries the session's pending rows, the messages sent so far and the
\* outcome of each school; an exception leaving the body ends the loop.
RECURSIVE PassLoop(_, _, _, _, _)
RECURSIVE PassStep(_, _, _, _, _)
PassStep(d, tdy, queue, n, acc) ==
    IF acc.raised THEN acc ELSE PassLoop(d, tdy, Tail(queue), n, acc)

PassLoop(d, tdy, queue, n, acc) ==
    IF queue = <<>> THEN acc
    ELSE PassStep(d, tdy, queue, n,
                  Merge(acc, Head(queue), ProcessSchool(d, Head(queue), tdy, n)))

\* Lines 84-86: the commit, reached only when no exception left the loop; a
\* message already sent stays sent.
Commit(d, r) ==
    [db |-> IF r.raised THEN d ELSE [d EXCEPT !.schools = r.schools],
     sent |-> r.sent, outcomes |-> r.outcomes, committed |-> ~r.raised]

\* Lines 13-86: one pass.
RunPass(d, tdy, order, n) ==
    Commit(d, PassLoop(d, tdy, order, n,
                       [schools |-> d.schools, sent |-> {},
                        outcomes |-> [c \in DOMAIN d.schools |-> NotLoaded],
                        raised |-> FALSE]))

(***************************************************************************)
(* The lifecycle state machine                                             *)
(***************************************************************************)
\* Passes checked in one behaviour.
MaxPasses == 2

\* Accreditation dates of the model: the spec's example (2020-01-10), a leap
\* day, a year's last day, and a date whose last year spans 29 February 2024.
D1 == IsoDate(2020, 1, 10)
D2 == IsoDate(2020, 2, 29)
D3 == IsoDate(2020, 12, 31)
D4 == IsoDate(2019, 3, 1)
\* An ISO-shaped string that names no calendar day.
BadIso == IsoDate(2021, 2, 30)

AllDays ==
    {dt \in [y : 2023..2026, m : 1..12, d : 1..31] : ValidYMD(dt.y, dt.m, dt.d)}

\* The days on which the clock of the lifecycle specification stands: 365,
\* 364, 182, 91, 61, 30, 0 and -1 days before the expiry of D1 (2025-01-10),
\* and 365 and 0 days before the expiry of D2 (2025-02-28).
Calendar ==
    {[y |-> 2024, m |-> 1, d |-> 11], [y |-> 2024, m |-> 1, d |-> 12],
     [y |-> 2024, m |-> 2, d |-> 29], [y |-> 2024, m |-> 7, d |-> 12],
     [y |-> 2024, m |-> 10, d |-> 11], [y |-> 2024, m |-> 11, d |-> 10],
     [y |-> 2024, m |-> 12, d |-> 11], [y |-> 2025, m |-> 1, d |-> 10],
     [y |-> 2025, m |-> 1, d |-> 11], [y |-> 2025, m |-> 2, d |-> 28]}

NoPass ==
    [n |-> 0, today |-> [y |-> 0, m |-> 0, d |-> 0], before |-> EmptyTable,
     outcomes |-> EmptyTable, sent |-> {}, committed |-> FALSE]

NoReq == [op |-> "none"]

\* The (status, date) pairs a school starts with.
InitCycles ==
    ({ACCREDITED} \X {NullDate, EmptyDate, TextDate, BadIso, D1, D2})
        \cup {<<UNACCREDITED, D1>>}

LifecycleStates ==
    [ST1 |-> StateRow("State 1", "st1@neco.gov.ng", FALSE),
     ST2 |-> StateRow("State 2", Null, FALSE)]

Init ==
    /\ \E c1, c2 \in InitCycles, st \in {"ST1", "ST2", "ST9"} :
          db = [states |-> LifecycleStates,
                lgas |-> EmptyTable,
                custodians |-> EmptyTable,
                schools |-> [S1 |-> SchoolRow("School 1", "ST1", "s1@school.ng", c1[1], c1[2]),
                             S2 |-> SchoolRow("School 2", st, Null, c2[1], c2[2])],
                bece_schools |-> EmptyTable,
                users |-> EmptyTable]
    /\ today \in Calendar
    /\ alerts = {}
    /\ creds = {}
    /\ lastPass = NoPass
    /\ lastReq = NoReq
    /\ npasses = 0
    /\ nreqs = 0
    /\ procs = NoProcs
    /\ smtp = TRUE

\* The clock moves on to a later day of the calendar.
Tick ==
    /\ \E t \in Calendar : Ordinal(t) > Ordinal(today) /\ today' = t
    /\ UNCHANGED <<db, alerts, creds, lastPass, lastReq, npasses, nreqs, procs, smtp>>

\* One run of check_accreditation (scheduler.py lines 13-86), the query
\* returning the accredited schools in any order.
ApplyPass(r) ==
    /\ db' = r.db
    /\ alerts' = SetUnion(alerts, r.sent)
    /\ lastPass' = [n |-> npasses + 1, today |-> today, before |-> db.schools,
                    outcomes |-> r.outcomes, sent |-> r.sent, committed |-> r.committed]

check_accreditation ==
    /\ npasses < MaxPasses
    /\ \E order \in Perms(AccreditedCodes(db)) :
          ApplyPass(RunPass(db, today, order, npasses + 1))
    /\ npasses' = npasses + 1
    /\ UNCHANGED <<today, creds, lastReq, nreqs, procs, smtp>>

Next == Tick \/ check_accreditation

Spec == Init /\ [][Next]_vars

\* The classification on every day of four years, for one school.
InitClassify ==
    /\ \E acc \in {D1, D2, D3, D4}, st \in {"ST1", "ST9"}, em \in {Null, "s1@school.ng"} :
          db = [states |-> LifecycleStates,
                lgas |-> EmptyTable,
                custodians |-> EmptyTable,
                schools |-> [S1 |-> SchoolRow("School 1", st, em, ACCREDITED, acc)],
                bece_schools |-> EmptyTable,
                users |-> EmptyTable]
    /\ today \in AllDays
    /\ alerts = {}
    /\ creds = {}
    /\ lastPass = NoPass
    /\ lastReq = NoReq
    /\ npasses = 0
    /\ nreqs = 0
    /\ procs = NoProcs
    /\ smtp = TRUE

NextClassify == check_accreditation

SpecClassify == InitClassify /\ [][NextClassify]_vars

(***************************************************************************)
(* Requests: app/core/auth.py and app/api/v1/endpoints                     *)
(*                                                                         *)
(* A response is [status, detail, rows, db, mail]: the HTTP status, the    *)
(* error detail, the rows returned, the database after the request and the *)
(* credentials e-mails sent.  The ORM classes are taken to carry every     *)
(* column the request schemas name.  A commit fails on a duplicate primary *)
(* key; a state_code that names no state is stored as it is (the engine    *)
(* behind DATABASE_URL decides whether foreign keys are enforced).         *)
(***************************************************************************)
LOCKED == "Your state is currently locked. You can only view data. Contact the administrator."
NOT_ENOUGH_PERMISSIONS == "You do not have enough permissions to access this resource"
PERMISSION_DENIED == "Permission denied"
NOT_FOUND == "not found"
INTEGRITY_ERROR == "IntegrityError"
SERVER_ERROR == "Internal Server Error"

Resp(status, detail, rows, d, mail) ==
    [status |-> status, detail |-> detail, rows |-> rows, db |-> d, mail |-> mail]

\* raise HTTPException(status_code, detail): nothing is committed.
Raise(status, detail, d) == Resp(status, detail, {}, d, {})

\* A successful response returning rows, after committing d.
Ok(rows, d, mail) == Resp(200, "", rows, d, mail)

\* A row as a response model returns it.
Out(t, code, row) == [table |-> t, code |-> code, row |-> row]

\* check_state_not_locked with the lock test applied to every role.
IsLockedOut_AnyRole(d, u) ==
    /\ Truthy(u.state_code)
    /\ u.state_code \in DOMAIN d.states
    /\ d.states[u.state_code].is_locked

\* auth.py lines 53-67, check_state_not_locked: true when it raises 403.
IsLockedOut(d, u) ==
    /\ u.role = ROLE_STATE
    /\ Truthy(u.state_code)
    /\ u.state_code \in DOMAIN d.states
    /\ d.states[u.state_code].is_locked

\* Guard with the role checked before the lock.
Guard_RoleFirst(d, u, lockdep, roles, body) ==
    IF u.role \notin roles THEN Raise(403, NOT_ENOUGH_PERMISSIONS, d)
    ELSE IF lockdep /\ IsLockedOut(d, u) THEN Raise(403, LOCKED, d)
    ELSE body

\* A write endpoint's dependencies, in the order FastAPI solves them: the
\* decorator's dependencies=[Depends(check_state_not_locked)] (when lockdep)
\* before the parameter Depends(check_role(roles)) (auth.py lines 43-51);
\* then the body.
Guard(d, u, lockdep, roles, body) ==
    IF lockdep /\ IsLockedOut(d, u) THEN Raise(403, LOCKED, d)
    ELSE IF u.role \notin roles THEN Raise(403, NOT_ENOUGH_PERMISSIONS, d)
    ELSE body

AdminHq == {ROLE_ADMIN, ROLE_HQ}
\* The roles of update_school without the state role.
AdminHqState_NoState == {ROLE_ADMIN, ROLE_HQ}
\* check_role([ADMIN, HQ, STATE]) of update_school and update_bece_school.
AdminHqState == {ROLE_ADMIN, ROLE_HQ, ROLE_STATE}

\* --- reads ---------------------------------------------------------------
\* The rows of table t with the given primary keys.
Select(d, t, codes) == {Out(t, c, d[t][c]) : c \in codes}

\* query.filter(<table>.state_code == state_code): the keys that match.
InState(d, t, state_code) == {c \in DOMAIN d[t] : d[t][c].state_code = state_code}

\* data.py lines 44-52
get_states(d, u) ==
    IF u.role \in AdminHq
    THEN Ok(Select(d, "states", DOMAIN d.states), d, {})
    ELSE Ok(Select(d, "states", DOMAIN d.states \cap {u.state_code}), d, {})

\* data.py lines 54-68
get_state(d, u, code) ==
    IF code \notin DOMAIN d.states THEN Raise(404, NOT_FOUND, d)
    ELSE IF u.role = ROLE_STATE /\ u.state_code # code THEN Raise(403, PERMISSION_DENIED, d)
    ELSE Ok({Out("states", code, d.states[code])}, d, {})

\* get_lgas, get_custodians, get_schools, get_bece_schools (data.py lines
\* 242-253, 318-334, 399-420, 548-567) with only the state_code parameter.
ListScoped(d, u, t, state_code) ==
    IF u.role = ROLE_STATE
    THEN Ok(Select(d, t, InState(d, t, u.state_code)), d, {})
    ELSE IF Truthy(state_code)
    THEN Ok(Select(d, t, InState(d, t, state_code)), d, {})
    ELSE Ok(Select(d, t, DOMAIN d[t]), d, {})

\* get_lga, get_custodian, get_school, get_bece_school (data.py lines
\* 255-269, 336-350, 422-436, 569-582).
GetScoped(d, u, t, code) ==
    IF code \notin DOMAIN d[t] THEN Raise(404, NOT_FOUND, d)
    ELSE IF u.role = ROLE_STATE /\ d[t][code].state_code # u.state_code
    THEN Raise(403, PERMISSION_DENIED, d)
    ELSE Ok({Out(t, code, d[t][code])}, d, {})

\* export_schools, export_lgas, export_custodians, export_bece_schools
\* (export.py lines 16-27, 77-88, 100-111, 141-152): the rows exported.
ExportScoped(d, u, t) ==
    IF u.role = ROLE_STATE
    THEN Ok(Select(d, t, InState(d, t, u.state_code)), d, {})
    ELSE Ok(Select(d, t, DOMAIN d[t]), d, {})

\* export.py lines 62-75
export_states(d, u) ==
    IF u.role = ROLE_STATE
    THEN Ok(Select(d, "states", DOMAIN d.states \cap {u.state_code}), d, {})
    ELSE Ok(Select(d, "states", DOMAIN d.states), d, {})

\* --- writes --------------------------------------------------------------
\* db.add(row); db.commit() on table t.
Put(d, t, code, row) == [d EXCEPT ![t] = (code :> row) @@ d[t]]

\* dict.get(field) on a payload of set fields.
Get(p, field, default) == IF field \in DOMAIN p THEN p[field] ELSE default

\* for field, value in update_data.items(): setattr(row, field, value)
SetAttrs(row, p) == [f \in DOMAIN row |-> IF f \in DOMAIN p THEN p[f] ELSE row[f]]

\* email_service.py generate_password / get_password_hash, kept symbolic.
generate_password(email) == [generated_for |-> email]
get_password_hash(password) == [hash_of |-> password]

\* The hash of a password set outside the requests (seed.py lines 20-40).
SeedHash(tag) == get_password_hash([generated_for |-> tag])

\* email_service.py lines 17-68
send_credentials_email(email, password, state_name) ==
    [to |-> email, password |-> password, name |-> state_name]

\* "return None  # No new password generated"
None == [generated_for |-> Null]

\* The helper without its lookup: the create path whatever the store holds.
_create_or_update_state_user_NoLookup(d, state_code, state_name, email) ==
    [db |-> Put(d, "users", email,
                UserRow(get_password_hash(generate_password(email)), ROLE_STATE, state_code, TRUE)),
     mail |-> {send_credentials_email(email, generate_password(email), state_name)},
     password |-> generate_password(email), raised |-> FALSE]

\* The helper making the found user a fresh state user.
_create_or_update_state_user_Reissue(d, state_code, state_name, email) ==
    IF email \in DOMAIN d.users
    THEN [db |-> Put(d, "users", email,
                     UserRow(get_password_hash(generate_password(email)), ROLE_STATE, state_code, TRUE)),
          mail |-> {}, password |-> None, raised |-> FALSE]
    ELSE [db |-> Put(d, "users", email,
                     UserRow(get_password_hash(generate_password(email)), ROLE_STATE, state_code, TRUE)),
          mail |-> {send_credentials_email(email, generate_password(email), state_name)},
          password |-> generate_password(email), raised |-> FALSE]

\* data.py lines 16-40: the session's database and the mail delivered, the
\* value returned, and whether an exception left the helper.
_create_or_update_state_user(d, state_code, state_name, email) ==
    IF email \in DOMAIN d.users
    THEN [db |-> Put(d, "users", email, [d.users[email] EXCEPT !.state_code = state_code]),
          mail |-> {}, password |-> None, raised |-> FALSE]
    ELSE [db |-> Put(d, "users", email,
                     UserRow(get_password_hash(generate_password(email)), ROLE_STATE, state_code, TRUE)),
          mail |-> SmtpSend(smtp, send_credentials_email(email, generate_password(email),
                                                         state_name)).delivered,
          password |-> generate_password(email),
          raised |-> SmtpSend(smtp, send_credentials_email(email, generate_password(email),
                                                           state_name)).raised]

\* return db_row, after the commits.
Respond(t, code, d, mail) == Ok({Out(t, code, d[t][code])}, d, mail)

\* The handler's db.commit() after the helper and its return; an exception
\* that left the helper leaves the handler before that commit, and the row
\* committed before the helper stays.
AfterProvision(t, code, d, r) ==
    IF r.raised THEN Raise(500, SERVER_ERROR, d) ELSE Respond(t, code, r.db, r.mail)

\* "Auto-create user if email is provided" (data.py lines 81-86, 455-461,
\* 602-606), on the committed row.
ProvisionIfEmail(d, t, code, owner, email) ==
    IF Truthy(email)
    THEN AfterProvision(t, code, d, _create_or_update_state_user(d, owner, d[t][code].name, email))
    ELSE Respond(t, code, d, {})

\* The helper called for every e-mail an update carries.
ProvisionIfChanged_Always(d, t, code, owner, new_email, old_email) ==
    IF Truthy(new_email)
    THEN AfterProvision(t, code, d, _create_or_update_state_user(d, owner, d[t][code].name, new_email))
    ELSE Respond(t, code, d, {})

\* "Auto-create user if email is newly set or changed" (data.py lines
\* 109-115, 496-503, 637-644).
ProvisionIfChanged(d, t, code, owner, new_email, old_email) ==
    IF Truthy(new_email) /\ new_email # old_email
    THEN AfterProvision(t, code, d, _create_or_update_state_user(d, owner, d[t][code].name, new_email))
    ELSE Respond(t, code, d, {})

\* db.add(new row); db.commit(): a duplicate primary key fails the commit.
Insert(d, t, code, row, then) ==
    IF code \in DOMAIN d[t] THEN Raise(500, INTEGRITY_ERROR, d) ELSE then

\* data.py lines 70-86
create_state(d, u, code, row) ==
    Guard(d, u, FALSE, AdminHq,
          Insert(d, "states", code, row,
                 ProvisionIfEmail(Put(d, "states", code, row), "states", code, code, row.email)))

\* data.py lines 88-115
update_state(d, u, code, p) ==
    Guard(d, u, FALSE, AdminHq,
          IF code \notin DOMAIN d.states THEN Raise(404, NOT_FOUND, d)
          ELSE ProvisionIfChanged(Put(d, "states", code, SetAttrs(d.states[code], p)),
                                  "states", code, code, Get(p, "email", Null), d.states[code].email))

\* The unit of work on db.delete(state): the rows related to it are
\* de-associated (relationship() without a delete cascade, models.py lines
\* 39-44), their state_code set to NULL.
Deassociate(tbl, code) ==
    [c \in DOMAIN tbl |-> IF tbl[c].state_code = code
                          THEN [tbl[c] EXCEPT !.state_code = Null] ELSE tbl[c]]

Without(tbl, code) == [c \in DOMAIN tbl \ {code} |-> tbl[c]]

\* data.py lines 117-129
delete_state(d, u, code) ==
    Guard(d, u, FALSE, AdminHq,
          IF code \notin DOMAIN d.states THEN Raise(404, NOT_FOUND, d)
          ELSE Resp(204, "", {},
                    [states |-> Without(d.states, code),
                     lgas |-> Deassociate(d.lgas, code),
                     custodians |-> Deassociate(d.custodians, code),
                     schools |-> Deassociate(d.schools, code),
                     bece_schools |-> Deassociate(d.bece_schools, code),
                     users |-> Deassociate(d.users, code)], {}))

\* state.is_locked = flag on one state, or on all of them.
\* SetLock applied to every state, whatever codes were named.
SetLock_Every(d, codes, flag) ==
    [d EXCEPT !.states = [c \in DOMAIN d.states |-> [d.states[c] EXCEPT !.is_locked = flag]]]

SetLock(d, codes, flag) ==
    [d EXCEPT !.states = [c \in DOMAIN d.states |->
                            IF c \in codes THEN [d.states[c] EXCEPT !.is_locked = flag]
                            ELSE d.states[c]]]

\* lock_states (flag TRUE, data.py lines 136-153) and unlock_states (flag
\* FALSE, lines 155-172).
SetLockRequest(d, u, state_code, flag) ==
    Guard(d, u, FALSE, {ROLE_ADMIN},
          IF Truthy(state_code)
          THEN IF state_code \notin DOMAIN d.states THEN Raise(404, NOT_FOUND, d)
               ELSE Ok({}, SetLock(d, {state_code}, flag), {})
          ELSE Ok({}, SetLock(d, DOMAIN d.states, flag), {}))

lock_states(d, u, state_code) == SetLockRequest(d, u, state_code, TRUE)
unlock_states(d, u, state_code) == SetLockRequest(d, u, state_code, FALSE)

\* create_lga, create_custodian (data.py lines 271-281, 352-362)
CreateScoped(d, u, t, code, row) ==
    Guard(d, u, TRUE, AdminHq,
          Insert(d, t, code, row, Respond(t, code, Put(d, t, code, row), {})))

\* update_lga, update_custodian (data.py lines 283-301, 364-382)
UpdateScoped(d, u, t, code, p) ==
    Guard(d, u, TRUE, AdminHq,
          IF code \notin DOMAIN d[t] THEN Raise(404, NOT_FOUND, d)
          ELSE Respond(t, code, Put(d, t, code, SetAttrs(d[t][code], p)), {}))

\* delete_lga, delete_custodian, delete_school, delete_bece_school (data.py
\* lines 303-315, 384-396, 505-517, 646-658).  DELETE /<kind>/all reaches
\* these too, with code "all": the /{code} route is declared first.
DeleteScoped(d, u, t, code) ==
    Guard(d, u, TRUE, AdminHq,
          IF code \notin DOMAIN d[t] THEN Raise(404, NOT_FOUND, d)
          ELSE Resp(204, "", {}, [d EXCEPT ![t] = Without(d[t], code)], {}))

\* "if accreditation_status == Accredited and not accredited_date: set it to
\* now" on a new row (data.py lines 444-449, 591-596).
StampNew(row, tdy) ==
    IF row.accreditation_status = ACCREDITED /\ ~TruthyDate(row.accredited_date)
    THEN [row EXCEPT !.accredited_date = NowIso(tdy)] ELSE row

\* create_school, create_bece_school (data.py lines 438-461, 584-606)
CreateSchool(d, u, t, code, row, tdy) ==
    Guard(d, u, TRUE, AdminHq,
          Insert(d, t, code, row,
                 ProvisionIfEmail(Put(d, t, code, StampNew(row, tdy)), t, code,
                                  row.state_code, row.email)))

\* "Handle accreditation date logic" on an update (data.py lines 481-488,
\* 625-630).
StampUpdate(row, p, tdy) ==
    IF /\ "accreditation_status" \in DOMAIN p
       /\ p.accreditation_status = ACCREDITED
       /\ ~TruthyDate(Get(p, "accredited_date", NullDate))
       /\ ~TruthyDate(row.accredited_date)
    THEN ("accredited_date" :> NowIso(tdy)) @@ p ELSE p

\* The body of update_school / update_bece_school after its checks, on the
\* stamped payload p.
UpdateSchoolBody(d, t, code, p) ==
    ProvisionIfChanged(Put(d, t, code, SetAttrs(d[t][code], p)), t, code,
                       Get(p, "state_code", d[t][code].state_code),
                       Get(p, "email", Null), d[t][code].email)

\* update_school with the "State user can only update schools in their
\* state" check left out.
UpdateSchool_NoRbac(d, u, t, code, p, tdy) ==
    Guard(d, u, TRUE, AdminHqState,
          IF code \notin DOMAIN d[t] THEN Raise(404, NOT_FOUND, d)
          ELSE UpdateSchoolBody(d, t, code, StampUpdate(d[t][code], p, tdy)))

\* The function update_school / update_bece_school, entered once its
\* dependencies are solved (data.py lines 470-503, 615-644).
UpdateSchoolHandler(d, u, t, code, p, tdy) ==
    IF code \notin DOMAIN d[t] THEN Raise(404, NOT_FOUND, d)
    ELSE IF u.role = ROLE_STATE /\ d[t][code].state_code # u.state_code
    THEN Raise(403, PERMISSION_DENIED, d)
    ELSE UpdateSchoolBody(d, t, code, StampUpdate(d[t][code], p, tdy))

\* update_school, update_bece_school (data.py lines 463-503, 608-644)
UpdateSchool(d, u, t, code, p, tdy) ==
    Guard(d, u, TRUE, AdminHqState, UpdateSchoolHandler(d, u, t, code, p, tdy))

\* --- routing -------------------------------------------------------------
\* The table each endpoint works on.
TableOf ==
    [get_lgas |-> "lgas", get_lga |-> "lgas", export_lgas |-> "lgas",
     create_lga |-> "lgas", update_lga |-> "lgas", delete_lga |-> "lgas",
     get_custodians |-> "custodians", get_custodian |-> "custodians",
     export_custodians |-> "custodians", create_custodian |-> "custodians",
     update_custodian |-> "custodians", delete_custodian |-> "custodians",
     get_schools |-> "schools", get_school |-> "schools", export_schools |-> "schools",
     create_school |-> "schools", update_school |-> "schools", delete_school |-> "schools",
     get_bece_schools |-> "bece_schools", get_bece_school |-> "bece_schools",
     export_bece_schools |-> "bece_schools", create_bece_school |-> "bece_schools",
     update_bece_school |-> "bece_schools", delete_bece_school |-> "bece_schools",
     get_states |-> "states", get_state |-> "states", export_states |-> "states",
     create_state |-> "states", update_state |-> "states", delete_state |-> "states",
     lock_states |-> "states", unlock_states |-> "states"]

ListOps == {"get_lgas", "get_custodians", "get_schools", "get_bece_schools"}
GetOps == {"get_lga", "get_custodian", "get_school", "get_bece_school"}
ExportOps == {"export_lgas", "export_custodians", "export_schools", "export_bece_schools"}
ReadOps == UNION {ListOps, GetOps, ExportOps, {"get_states", "get_state", "export_states"}}
CreateOps == {"create_state", "create_lga", "create_custodian", "create_school", "create_bece_school"}
UpdateOps == {"update_state", "update_lga", "update_custodian", "update_school", "update_bece_school"}
DeleteOps == {"delete_state", "delete_lga", "delete_custodian", "delete_school", "delete_bece_school"}
LockOps == {"lock_states", "unlock_states"}
WriteOps == UNION {CreateOps, UpdateOps, DeleteOps, LockOps}

\* A request [op, user, code, state_code, p] served for current_user u on
\* database d at date tdy: the endpoint the router (main.py lines 25-28)
\* selects, applied to the request's parameters.
Handle(d, u, req, tdy) ==
    CASE req.op = "get_states" -> get_states(d, u)
      [] req.op = "get_state" -> get_state(d, u, req.code)
      [] req.op = "export_states" -> export_states(d, u)
      [] req.op \in ListOps -> ListScoped(d, u, TableOf[req.op], req.state_code)
      [] req.op \in GetOps -> GetScoped(d, u, TableOf[req.op], req.code)
      [] req.op \in ExportOps -> ExportScoped(d, u, TableOf[req.op])
      [] req.op = "create_state" -> create_state(d, u, req.code, req.p)
      [] req.op = "update_state" -> update_state(d, u, req.code, req.p)
      [] req.op = "delete_state" -> delete_state(d, u, req.code)
      [] req.op = "lock_states" -> lock_states(d, u, req.state_code)
      [] req.op = "unlock_states" -> unlock_states(d, u, req.state_code)
      [] req.op \in {"create_lga", "create_custodian"} ->
              CreateScoped(d, u, TableOf[req.op], req.code, req.p)
      [] req.op \in {"update_lga", "update_custodian"} ->
              UpdateScoped(d, u, TableOf[req.op], req.code, req.p)
      [] req.op \in {"create_school", "create_bece_school"} ->
              CreateSchool(d, u, TableOf[req.op], req.code, req.p, tdy)
      [] req.op \in {"update_school", "update_bece_school"} ->
              UpdateSchool(d, u, TableOf[req.op], req.code, req.p, tdy)
      [] req.op \in DeleteOps \ {"delete_state"} ->
              DeleteScoped(d, u, TableOf[req.op], req.code)

\* --- the requests of the access specification ----------------------------
\* Requests served in one behaviour.
MaxReqs == 2

HQ_EMAIL == "accreditation@neco.gov.ng"
STATE_USER == "st1@neco.gov.ng"
NEW_EMAIL == "new@school.ng"

\* The primary keys requests name: two that exist at the start, in ST1 and
\* in ST2, and one that does not.
CodesOf ==
    [states |-> {"ST1", "ST2", "ST3"}, lgas |-> {"L1", "L2", "L3"},
     custodians |-> {"K1", "K2", "K3"}, schools |-> {"S1", "S2", "S3"},
     bece_schools |-> {"B1", "B2", "B3"}]

\* The primary key creates are sent with: new at first, a duplicate after.
NewCodeOf ==
    [states |-> "ST3", lgas |-> "L3", custodians |-> "K3", schools |-> "S3",
     bece_schools |-> "B3"]

StateParams == {Null, "ST1", "ST2"}

Req(op, user, code, state_code, p) ==
    [op |-> op, user |-> user, code |-> code, state_code |-> state_code, p |-> p]

NoBody == <<>>

NewStates == {StateRow("n0", Null, FALSE), StateRow("n0", NEW_EMAIL, FALSE)}
NewScoped == {ScopedRow("n0", "ST1"), ScopedRow("n0", "ST2")}
NewSchools ==
    {SchoolRow("n0", "ST1", Null, UNACCREDITED, NullDate),
     SchoolRow("n0", "ST2", Null, UNACCREDITED, NullDate),
     SchoolRow("n0", "ST1", NEW_EMAIL, ACCREDITED, NullDate)}

StateUpdates == {[name |-> "n1"], [email |-> NEW_EMAIL], [is_locked |-> TRUE]}
ScopedUpdates == {[name |-> "n1"], [state_code |-> "ST2"]}
SchoolUpdates ==
    {[name |-> "n1"], [state_code |-> "ST2"], [email |-> NEW_EMAIL],
     [accreditation_status |-> ACCREDITED]}

\* The bodies a create or an update of each table is sent with.
BodiesOf(op) ==
    CASE op = "create_state" -> NewStates
      [] op \in {"create_lga", "create_custodian"} -> NewScoped
      [] op \in {"create_school", "create_bece_school"} -> NewSchools
      [] op = "update_state" -> StateUpdates
      [] op \in {"update_lga", "update_custodian"} -> ScopedUpdates
      [] op \in {"update_school", "update_bece_school"} -> SchoolUpdates

ReadRequests(user) ==
    UNION {
      {Req(op, user, Null, Null, NoBody) : op \in {"get_states", "export_states"}},
      {Req(op, user, Null, sc, NoBody) : op \in ListOps, sc \in StateParams},
      {Req(op, user, Null, Null, NoBody) : op \in ExportOps},
      UNION {{Req(op, user, c, Null, NoBody) : c \in CodesOf[TableOf[op]]} :
                op \in GetOps \cup {"get_state"}}}

WriteRequests(user) ==
    UNION {
      UNION {{Req(op, user, NewCodeOf[TableOf[op]], Null, b) : b \in BodiesOf(op)} :
                op \in CreateOps},
      UNION {{Req(op, user, c, Null, b) : c \in CodesOf[TableOf[op]], b \in BodiesOf(op)} :
                op \in UpdateOps},
      UNION {{Req(op, user, c, Null, NoBody) : c \in CodesOf[TableOf[op]] \cup {"all"}} :
                op \in DeleteOps},
      {Req(op, user, Null, sc, NoBody) : op \in LockOps, sc \in StateParams}}

AccessToday == [y |-> 2024, m |-> 1, d |-> 11]

\* The database the requests start from: every table holds a row of ST1 and
\* a row of ST2.  Either no state is locked and the HQ user has no
\* state_code, or ST1 is locked and the HQ user carries state_code ST1 (as
\* it does once its e-mail has been given to ST1 or to a school of ST1).
InitAccess ==
    /\ \E locked \in BOOLEAN : \E hq_state \in {IF locked THEN "ST1" ELSE Null} :
          db = [states |-> [ST1 |-> StateRow("n0", STATE_USER, locked),
                            ST2 |-> StateRow("n0", Null, FALSE)],
                lgas |-> [L1 |-> ScopedRow("n0", "ST1"), L2 |-> ScopedRow("n0", "ST2")],
                custodians |-> [K1 |-> ScopedRow("n0", "ST1"), K2 |-> ScopedRow("n0", "ST2")],
                schools |-> [S1 |-> SchoolRow("n0", "ST1", Null, UNACCREDITED, NullDate),
                             S2 |-> SchoolRow("n0", "ST2", Null, UNACCREDITED, NullDate)],
                bece_schools |-> [B1 |-> SchoolRow("n0", "ST1", Null, UNACCREDITED, NullDate),
                                  B2 |-> SchoolRow("n0", "ST2", Null, UNACCREDITED, NullDate)],
                users |-> (ADMIN_EMAIL :> UserRow(SeedHash("h0"), ROLE_ADMIN, Null, TRUE))
                          @@ (HQ_EMAIL :> UserRow(SeedHash("h1"), ROLE_HQ, hq_state, TRUE))
                          @@ (STATE_USER :> UserRow(SeedHash("h2"), ROLE_STATE, "ST1", TRUE))]
    /\ today = AccessToday
    /\ alerts = {}
    /\ creds = {}
    /\ lastPass = NoPass
    /\ lastReq = NoReq
    /\ npasses = 0
    /\ nreqs = 0
    /\ procs = NoProcs
    /\ smtp = TRUE

\* The response r to request req is returned and its effects take place.
ApplyReq(req, u, r) ==
    /\ db' = r.db
    /\ creds' = SetUnion(creds, r.mail)
    /\ lastReq' = [op |-> req.op, req |-> req, caller |-> u, status |-> r.status,
                   detail |-> r.detail, rows |-> r.rows, mail |-> r.mail,
                   before |-> db]
    /\ nreqs' = nreqs + 1
    /\ UNCHANGED <<today, alerts, lastPass, npasses, procs, smtp>>

\* An authenticated user sends a GET request.
ReadRequest ==
    /\ nreqs < MaxReqs
    /\ \E user \in DOMAIN db.users : \E req \in ReadRequests(user) :
          ApplyReq(req, db.users[user], Handle(db, db.users[user], req, today))

\* An authenticated user sends a POST, PUT or DELETE request.
WriteRequest ==
    /\ nreqs < MaxReqs
    /\ \E user \in DOMAIN db.users : \E req \in WriteRequests(user) :
          ApplyReq(req, db.users[user], Handle(db, db.users[user], req, today))

NextAccess == ReadRequest \/ WriteRequest

SpecAccess == InitAccess /\ [][NextAccess]_vars

\* --- the provisioning helper called on its own ---------------------------
\* Calls of the helper in one behaviour.
MaxCalls == 2

\* The users every specification of the requests starts with.
SeedUsers ==
    (ADMIN_EMAIL :> UserRow(SeedHash("h0"), ROLE_ADMIN, Null, TRUE))
        @@ (HQ_EMAIL :> UserRow(SeedHash("h1"), ROLE_HQ, Null, TRUE))

\* Users that may be stored besides: a state user of ST1, and a deactivated
\* user that holds NEW_EMAIL.
OptionalUsers ==
    {EmptyTable,
     STATE_USER :> UserRow(SeedHash("h2"), ROLE_STATE, "ST1", TRUE),
     NEW_EMAIL :> UserRow(SeedHash("h3"), ROLE_STATE, "ST2", FALSE),
     (STATE_USER :> UserRow(SeedHash("h2"), ROLE_STATE, "ST1", TRUE))
         @@ (NEW_EMAIL :> UserRow(SeedHash("h3"), ROLE_STATE, "ST2", FALSE))}

InitProvision ==
    /\ \E more \in OptionalUsers :
          db = [states |-> [ST1 |-> StateRow("n0", Null, FALSE),
                            ST2 |-> StateRow("n0", Null, FALSE)],
                lgas |-> EmptyTable, custodians |-> EmptyTable,
                schools |-> EmptyTable, bece_schools |-> EmptyTable,
                users |-> more @@ SeedUsers]
    /\ today = AccessToday
    /\ alerts = {}
    /\ creds = {}
    /\ lastPass = NoPass
    /\ lastReq = NoReq
    /\ npasses = 0
    /\ nreqs = 0
    /\ procs = NoProcs
    /\ smtp = TRUE

\* The call before the last, as the last call remembers it.
Brief(call) ==
    IF call.op = "none" THEN NoReq
    ELSE [op |-> call.op, email |-> call.email, state_code |-> call.state_code,
          password |-> call.password, mail |-> call.mail, before |-> call.before]

\* The helper returns r and the caller commits.
ApplyCall(email, state_code, r) ==
    /\ db' = r.db
    /\ creds' = SetUnion(creds, r.mail)
    /\ lastReq' = [op |-> "provision", email |-> email, state_code |-> state_code,
                   password |-> r.password, mail |-> r.mail, before |-> db,
                   prev |-> Brief(lastReq)]
    /\ nreqs' = nreqs + 1
    /\ UNCHANGED <<today, alerts, lastPass, npasses, procs, smtp>>

\* One call of _create_or_update_state_user, committed.
provision ==
    /\ nreqs < MaxCalls
    /\ \E email \in {NEW_EMAIL, STATE_USER, HQ_EMAIL}, state_code \in {"ST1", "ST2"},
          state_name \in {"n0", "n1"} :
          ApplyCall(email, state_code,
                    _create_or_update_state_user(db, state_code, state_name, email))

NextProvision == provision

SpecProvision == InitProvision /\ [][NextProvision]_vars

\* --- two write requests served at the same time --------------------------
\* Requests in flight, each on its own session (session.py lines 14-16) in
\* its own worker.  A handler is interleaved with the other at its database
\* round trips: the commit of the written row, the helper's lookup (the
\* e-mail is sent before the helper returns) and the commit that follows it.
Workers == {1, 2}

Proc(pc, req, path, pending, status) ==
    [pc |-> pc, req |-> req, path |-> path, pending |-> pending, status |-> status]

\* The write each worker serves: the first creates a school of ST1, the
\* second creates a school of ST2 or gives state ST2 an e-mail.
RaceRequests(w, email) ==
    IF w = 1
    THEN {Req("create_school", ADMIN_EMAIL, "S1", Null,
              SchoolRow("n0", "ST1", email, UNACCREDITED, NullDate))}
    ELSE {Req("create_school", HQ_EMAIL, "S2", Null,
              SchoolRow("n0", "ST2", email, UNACCREDITED, NullDate)),
          Req("update_state", HQ_EMAIL, "ST2", Null, [email |-> email])}

InitRace ==
    /\ \E more \in {EmptyTable, STATE_USER :> UserRow(SeedHash("h2"), ROLE_STATE, "ST1", TRUE)} :
          db = [states |-> [ST1 |-> StateRow("n0", Null, FALSE),
                            ST2 |-> StateRow("n0", Null, FALSE)],
                lgas |-> EmptyTable, custodians |-> EmptyTable,
                schools |-> EmptyTable, bece_schools |-> EmptyTable,
                users |-> more @@ SeedUsers]
    /\ \E e1, e2 \in {NEW_EMAIL, STATE_USER} :
          \E r1 \in RaceRequests(1, e1), r2 \in RaceRequests(2, e2) :
             procs = (1 :> Proc("start", r1, "", None, 0)) @@ (2 :> Proc("start", r2, "", None, 0))
    /\ today = AccessToday
    /\ alerts = {}
    /\ creds = {}
    /\ smtp = TRUE
    /\ lastPass = NoPass
    /\ lastReq = NoReq
    /\ npasses = 0
    /\ nreqs = 0

\* The state the helper is called for and the name it is called with.
OwnerOf(req) == IF req.op = "update_state" THEN req.code ELSE req.p.state_code

\* The row the handler has written when it calls the helper.
WrittenRow(d, req) ==
    IF req.op = "update_state" THEN SetAttrs(d.states[req.code], req.p)
    ELSE StampNew(req.p, AccessToday)

\* create_school lines 444-454 / update_state lines 95-107: the row is
\* written and committed; the helper is called next (lines 82, 111, 456).
BeginWrite(w) ==
    /\ procs[w].pc = "start"
    /\ db' = Put(db, TableOf[procs[w].req.op], procs[w].req.code, WrittenRow(db, procs[w].req))
    /\ procs' = [procs EXCEPT ![w].pc = "helper"]
    /\ UNCHANGED <<today, alerts, creds, lastPass, lastReq, npasses, nreqs, smtp>>

\* What the helper leaves in the session, from its result r on the database
\* it has read: the path taken and the row to flush.
HelperDone(w, email, r) ==
    /\ procs' = [procs EXCEPT ![w].pc = "commit",
                              ![w].path = IF r.password = None THEN "update" ELSE "create",
                              ![w].pending = r.db.users[email]]
    /\ creds' = SetUnion(creds, r.mail)

\* generate_password (email_service.py lines 11-14) draws eight characters at
\* random: the passwords a call may draw, equal or not to another call's.
Draws == {generate_password("draw1"), generate_password("draw2")}

\* The helper's result r for the e-mail when its call of generate_password
\* has drawn pw: the new user's hash and the message carry that password.
WithDraw(r, email, pw) ==
    IF r.password = None THEN r
    ELSE [db |-> Put(r.db, "users", email,
                     [r.db.users[email] EXCEPT !.hashed_password = get_password_hash(pw)]),
          mail |-> {[m EXCEPT !.password = pw] : m \in r.mail},
          password |-> pw, raised |-> r.raised]

\* _create_or_update_state_user (lines 16-40) on the session of worker w.
CallHelper(w) ==
    /\ procs[w].pc = "helper"
    /\ \E pw \in Draws :
          HelperDone(w, procs[w].req.p.email,
                     WithDraw(_create_or_update_state_user(db, OwnerOf(procs[w].req), "n0",
                                                           procs[w].req.p.email),
                              procs[w].req.p.email, pw))
    /\ UNCHANGED <<db, today, alerts, lastPass, lastReq, npasses, nreqs, smtp>>

\* db.commit() after the helper (lines 84, 113, 459): the INSERT of a user
\* whose e-mail is stored by now breaks the unique index on User.email
\* (models.py line 14) and the exception leaves the handler; the UPDATE of
\* the found user sets its state_code.
CommitHelper(w) ==
    /\ procs[w].pc = "commit"
    /\ IF procs[w].path = "create" /\ procs[w].req.p.email \in DOMAIN db.users
       THEN /\ procs' = [procs EXCEPT ![w].pc = "done", ![w].status = 500]
            /\ db' = db
       ELSE /\ procs' = [procs EXCEPT ![w].pc = "done", ![w].status = 200]
            /\ db' = IF procs[w].path = "create"
                     THEN Put(db, "users", procs[w].req.p.email, procs[w].pending)
                     ELSE Put(db, "users", procs[w].req.p.email,
                              [db.users[procs[w].req.p.email]
                                 EXCEPT !.state_code = procs[w].pending.state_code])
    /\ UNCHANGED <<today, alerts, creds, lastPass, lastReq, npasses, nreqs, smtp>>

NextRace == \E w \in Workers : BeginWrite(w) \/ CallHelper(w) \/ CommitHelper(w)

SpecRace == InitRace /\ [][NextRace]_vars

\* --- bulk uploads: app/api/v1/endpoints/upload.py ------------------------
\* An uploaded file is the sequence of its rows [code, name, state_code,
\* email]; a cell left empty is Null.
BAD_REQUEST == "Database error during upload"
MISSING_STATE == "State code does not exist."

FileCodes(file) == {file[i].code : i \in DOMAIN file}

\* Two rows of the file carry the same value in a column.
Repeats(file, column) ==
    \E i, j \in DOMAIN file : i # j /\ file[i][column] = file[j][column]

RowWithCode(file, code) == file[CHOOSE i \in DOMAIN file : file[i].code = code]

\* School(...) of upload_schools lines 53-63: status and date are the
\* column defaults (models.py lines 83-84).
UploadedSchool(r) == SchoolRow(r.name, r.state_code, r.email, UNACCREDITED, NullDate)

\* upload_schools (upload.py lines 15-75) and upload_bece_schools (lines
\* 77-137) on table t.
UploadSchools(d, u, t, file) ==
    Guard(d, u, FALSE, AdminHq,
          IF \E i \in DOMAIN file : file[i].state_code \notin DOMAIN d.states
          THEN Raise(400, MISSING_STATE, d)
          ELSE IF Repeats(file, "code") \/ FileCodes(file) \cap DOMAIN d[t] # {}
          THEN Raise(400, BAD_REQUEST, d)
          ELSE Resp(201, "", {},
                    [d EXCEPT ![t] = [c \in UNION {DOMAIN d[t], FileCodes(file)} |->
                                         IF c \in FileCodes(file)
                                         THEN UploadedSchool(RowWithCode(file, c))
                                         ELSE d[t][c]]], {}))

\* config.py line 11, kept symbolic.
DEFAULT_STATE_PASSWORD == [generated_for |-> "DEFAULT_STATE_PASSWORD"]

\* f"state_{state_code}@neco.gov.ng" (upload.py line 171)
DefaultStateEmail ==
    [ST1 |-> "state_ST1@neco.gov.ng", ST2 |-> "state_ST2@neco.gov.ng",
     ST3 |-> "state_ST3@neco.gov.ng", ST4 |-> "state_ST4@neco.gov.ng"]

\* upload.py lines 171-173: the e-mail of a row's default user.
StateEmail(r, has_email) == IF has_email THEN r.email ELSE DefaultStateEmail[r.code]

\* The rows of the file whose default user is not stored (lines 175-184;
\* the lookup does not see the users added for earlier rows).
WithNewUser(d, file, has_email) ==
    {i \in DOMAIN file : StateEmail(file[i], has_email) \notin DOMAIN d.users}

\* upload_states (upload.py lines 139-195); has_email: the file has an
\* email column.
upload_states(d, u, file, has_email) ==
    Guard(d, u, FALSE, AdminHq,
          IF \/ Repeats(file, "code")
             \/ FileCodes(file) \cap DOMAIN d.states # {}
             \/ \E i, j \in WithNewUser(d, file, has_email) :
                   i # j /\ StateEmail(file[i], has_email) = StateEmail(file[j], has_email)
          THEN Raise(400, BAD_REQUEST, d)
          ELSE Resp(201, "", {},
                    [d EXCEPT
                       !.states = [c \in UNION {DOMAIN d.states, FileCodes(file)} |->
                                      IF c \in FileCodes(file)
                                      THEN StateRow(RowWithCode(file, c).name, Null, FALSE)
                                      ELSE d.states[c]],
                       !.users = [e \in UNION {DOMAIN d.users,
                                               {StateEmail(file[i], has_email) :
                                                  i \in WithNewUser(d, file, has_email)}} |->
                                     IF e \in DOMAIN d.users THEN d.users[e]
                                     ELSE UserRow(get_password_hash(DEFAULT_STATE_PASSWORD),
                                                  ROLE_STATE,
                                                  file[CHOOSE i \in DOMAIN file :
                                                          StateEmail(file[i], has_email) = e].code,
                                                  TRUE)]], {}))

\* --- the writes that register contact e-mails ----------------------------
\* Writes served in one behaviour.
MaxWrites == 2

IdentityEmails == {NEW_EMAIL, HQ_EMAIL}

NewSchoolWith(email) == SchoolRow("n0", "ST1", email, UNACCREDITED, NullDate)

FileRow(code, state_code, email) ==
    [code |-> code, name |-> "n0", state_code |-> state_code, email |-> email]

\* Creates, updates and the delete of a state, sent by user: with no e-mail,
\* with a new one, with the stored one, or with the e-mail of the HQ user.
IdentityWrites(user) ==
    UNION {
      {Req("create_state", user, "ST3", Null, StateRow("n0", e, FALSE)) :
          e \in UNION {{Null}, IdentityEmails}},
      {Req("update_state", user, "ST1", Null, b) :
          b \in UNION {{[name |-> "n1"]}, {[email |-> e] : e \in UNION {IdentityEmails, {STATE_USER}}}}},
      {Req("delete_state", user, "ST1", Null, NoBody)},
      {Req(op, user, NewCodeOf[TableOf[op]], Null, NewSchoolWith(e)) :
          op \in {"create_school", "create_bece_school"}, e \in UNION {{Null}, IdentityEmails}},
      UNION {{Req(op, user, c, Null, b) :
                 b \in UNION {{[name |-> "n1"], [state_code |-> "ST2"]},
                              {[email |-> e] : e \in IdentityEmails},
                              {[email |-> e, state_code |-> "ST2"] : e \in IdentityEmails}}} :
                <<op, c>> \in {<<"update_school", "S1">>, <<"update_bece_school", "B1">>}}}

SchoolFiles ==
    {<<FileRow("S4", "ST1", NEW_EMAIL)>>, <<FileRow("S4", "ST2", Null)>>,
     <<FileRow("S4", "ST1", Null), FileRow("S5", "ST9", NEW_EMAIL)>>}

StateFiles ==
    {<<FileRow("ST4", Null, NEW_EMAIL)>>, <<FileRow("ST4", Null, HQ_EMAIL)>>,
     <<FileRow("ST3", Null, "other@neco.gov.ng"), FileRow("ST4", Null, "other@neco.gov.ng")>>}

UploadRequests(user) ==
    UNION {
      {Req(op, user, Null, Null, f) : op \in {"upload_schools", "upload_bece_schools"},
                                      f \in SchoolFiles},
      {Req("upload_states", user, Null, Null, [file |-> f, has_email |-> h]) :
          f \in StateFiles, h \in BOOLEAN}}

\* The upload endpoint the router selects.
HandleUpload(d, u, req) ==
    CASE req.op = "upload_schools" -> UploadSchools(d, u, "schools", req.p)
      [] req.op = "upload_bece_schools" -> UploadSchools(d, u, "bece_schools", req.p)
      [] req.op = "upload_states" -> upload_states(d, u, req.p.file, req.p.has_email)

\* ST1's e-mail has its user.  School S1 has no e-mail, or has NEW_EMAIL,
\* whose user was provisioned with it.
InitIdentity ==
    /\ \E s1mail \in {Null, NEW_EMAIL} :
          db = [states |-> [ST1 |-> StateRow("n0", STATE_USER, FALSE),
                            ST2 |-> StateRow("n0", Null, FALSE)],
                lgas |-> EmptyTable, custodians |-> EmptyTable,
                schools |-> [S1 |-> SchoolRow("n0", "ST1", s1mail, UNACCREDITED, NullDate)],
                bece_schools |-> [B1 |-> SchoolRow("n0", "ST1", Null, UNACCREDITED, NullDate)],
                users |-> (IF s1mail = Null THEN EmptyTable
                           ELSE NEW_EMAIL :> UserRow(get_password_hash(generate_password(NEW_EMAIL)),
                                                     ROLE_STATE, "ST1", TRUE))
                          @@ (STATE_USER :> UserRow(SeedHash("h2"), ROLE_STATE, "ST1", TRUE))
                          @@ SeedUsers]
    /\ today = AccessToday
    /\ alerts = {}
    /\ creds = {}
    /\ lastPass = NoPass
    /\ lastReq = NoReq
    /\ npasses = 0
    /\ nreqs = 0
    /\ procs = NoProcs
    /\ smtp = TRUE

\* An authenticated user sends a create, an update or the delete of a state.
IdentityWrite ==
    /\ nreqs < MaxWrites
    /\ \E user \in DOMAIN db.users : \E req \in IdentityWrites(user) :
          ApplyReq(req, db.users[user], Handle(db, db.users[user], req, today))

\* An authenticated user uploads a file.
UploadRequest ==
    /\ nreqs < MaxWrites
    /\ \E user \in DOMAIN db.users : \E req \in UploadRequests(user) :
          ApplyReq(req, db.users[user], HandleUpload(db, db.users[user], req))

NextIdentity == IdentityWrite \/ UploadRequest

SpecIdentity == InitIdentity /\ [][NextIdentity]_vars

\* --- two invocations of check_accreditation ------------------------------
\* An invocation: its position, the schools still to visit, the rows its
\* session loaded, the rows it changed, and the invocations that were in
\* their loop when it began.
PassProc(pc, queue, rows, dirty, during) ==
    [pc |-> pc, queue |-> queue, rows |-> rows, dirty |-> dirty, during |-> during]

InLoop(ps) == {w \in DOMAIN ps : ps[w].pc = "loop"}

OverlapCycles == {<<ACCREDITED, D1>>, <<ACCREDITED, D2>>, <<ACCREDITED, NullDate>>}

InitOverlap ==
    /\ \E c1, c2 \in OverlapCycles :
          db = [states |-> LifecycleStates,
                lgas |-> EmptyTable,
                custodians |-> EmptyTable,
                schools |-> [S1 |-> SchoolRow("School 1", "ST1", "s1@school.ng", c1[1], c1[2]),
                             S2 |-> SchoolRow("School 2", "ST2", Null, c2[1], c2[2])],
                bece_schools |-> EmptyTable,
                users |-> EmptyTable]
    /\ today \in {[y |-> 2024, m |-> 1, d |-> 11], [y |-> 2025, m |-> 1, d |-> 10],
                  [y |-> 2025, m |-> 2, d |-> 28]}
    /\ alerts = {}
    /\ creds = {}
    /\ lastPass = NoPass
    /\ lastReq = NoReq
    /\ npasses = 0
    /\ nreqs = 0
    /\ procs = NoProcs
    /\ smtp = TRUE

\* scheduler.py lines 13-17: the invocation opens its session and loads the
\* accredited schools.  Nothing in the function, in __main__ (lines 88-91) or
\* in main.py tests whether another invocation is running.
StartPass(w) ==
    /\ w \notin DOMAIN procs
    /\ \E order \in Perms(AccreditedCodes(db)) :
          procs' = procs @@ (w :> PassProc("loop", order,
                                           [c \in AccreditedCodes(db) |-> db.schools[c]],
                                           {}, InLoop(procs)))
    /\ UNCHANGED <<db, today, alerts, creds, lastPass, lastReq, npasses, nreqs, smtp>>

\* The invocation after the loop body gave r for school `code`.
AfterBody(p, code, r) ==
    [p EXCEPT !.pc = IF r.raised THEN "failed" ELSE "loop",
              !.queue = Tail(p.queue),
              !.dirty = IF r.status # p.rows[code].accreditation_status
                        THEN UNION {p.dirty, {code}} ELSE p.dirty]

BodyDone(w, r) ==
    /\ alerts' = SetUnion(alerts, r.sent)
    /\ procs' = [procs EXCEPT ![w] = AfterBody(procs[w], Head(procs[w].queue), r)]

\* Lines 19-82: the loop body for the next school, on the row the session
\* loaded; the state is queried now (line 41) and the message is sent now.
StepPass(w) ==
    /\ w \in DOMAIN procs
    /\ procs[w].pc = "loop"
    /\ procs[w].queue # <<>>
    /\ BodyDone(w, ProcessRow(db, w, Head(procs[w].queue),
                              procs[w].rows[Head(procs[w].queue)], today))
    /\ UNCHANGED <<db, today, creds, lastPass, lastReq, npasses, nreqs, smtp>>

\* The rows of `schools` after the session's changed rows are written.
Flushed(schools, dirty) ==
    [c \in DOMAIN schools |->
        IF c \in dirty THEN [schools[c] EXCEPT !.accreditation_status = UNACCREDITED]
        ELSE schools[c]]

\* Lines 84-86: db.commit() and db.close().
FinishPass(w) ==
    /\ w \in DOMAIN procs
    /\ procs[w].pc = "loop"
    /\ procs[w].queue = <<>>
    /\ db' = [db EXCEPT !.schools = Flushed(db.schools, procs[w].dirty)]
    /\ procs' = [procs EXCEPT ![w].pc = "done"]
    /\ UNCHANGED <<today, alerts, creds, lastPass, lastReq, npasses, nreqs, smtp>>

NextOverlap == \E w \in Workers : StartPass(w) \/ StepPass(w) \/ FinishPass(w)

SpecOverlap == InitOverlap /\ [][NextOverlap]_vars

\* --- passes and provisioning while the SMTP server comes and goes ---------
DeliveryCycles == {<<ACCREDITED, D1>>, <<ACCREDITED, D2>>, <<UNACCREDITED, NullDate>>}

InitDelivery ==
    /\ \E c1, c2 \in DeliveryCycles :
          db = [states |-> LifecycleStates,
                lgas |-> EmptyTable,
                custodians |-> EmptyTable,
                schools |-> [S1 |-> SchoolRow("School 1", "ST1", "s1@school.ng", c1[1], c1[2]),
                             S2 |-> SchoolRow("School 2", "ST2", Null, c2[1], c2[2])],
                bece_schools |-> [B1 |-> SchoolRow("BECE 1", "ST1", Null, ACCREDITED, D1)],
                users |-> SeedUsers]
    /\ today \in {[y |-> 2024, m |-> 1, d |-> 11], [y |-> 2025, m |-> 1, d |-> 10],
                  [y |-> 2025, m |-> 2, d |-> 28]}
    /\ alerts = {}
    /\ creds = {}
    /\ lastPass = NoPass
    /\ lastReq = NoReq
    /\ npasses = 0
    /\ nreqs = 0
    /\ procs = NoProcs
    /\ smtp \in BOOLEAN

\* The SMTP server stops or starts accepting messages.
SmtpChange ==
    /\ smtp' = ~smtp
    /\ UNCHANGED <<db, today, alerts, creds, lastPass, lastReq, npasses, nreqs, procs>>

\* Writes that register a contact e-mail, sent by user.
DeliveryWrites(user) ==
    {Req("create_state", user, "ST3", Null, StateRow("n0", NEW_EMAIL, FALSE)),
     Req("update_state", user, "ST2", Null, [email |-> NEW_EMAIL]),
     Req("create_school", user, "S3", Null, NewSchoolWith("s3@school.ng")),
     Req("update_school", user, "S2", Null, [email |-> "s1@school.ng"])}

\* The administrator sends one of them.
DeliveryWrite ==
    /\ nreqs < MaxWrites
    /\ \E req \in DeliveryWrites(ADMIN_EMAIL) :
          ApplyReq(req, db.users[ADMIN_EMAIL], Handle(db, db.users[ADMIN_EMAIL], req, today))

NextDelivery == SmtpChange \/ check_accreditation \/ DeliveryWrite

SpecDelivery == InitDelivery /\ [][NextDelivery]_vars

\* --- lock, unlock and the writes of a state user -------------------------
\* Requests served in one behaviour.
MaxLockReqs == 3

\* The committed locks and unlocks of each state, oldest first.
NoLocks == [c \in {"ST1", "ST2"} |-> <<>>]

LockLog == IF lastReq.op = "none" THEN NoLocks ELSE lastReq.locks

\* The states whose is_locked the request sets, when it is committed.
LockTargets(d, req) ==
    IF req.op \in LockOps
    THEN IF Truthy(req.state_code) THEN {req.state_code} \cap DOMAIN d.states
         ELSE DOMAIN d.states
    ELSE IF req.op = "update_state" /\ "is_locked" \in DOMAIN req.p THEN {req.code}
    ELSE {}

LockWord(req) ==
    IF req.op = "lock_states" THEN "lock"
    ELSE IF req.op = "unlock_states" THEN "unlock"
    ELSE IF req.p.is_locked THEN "lock" ELSE "unlock"

\* The log after request req, answered with status, on database d.
Logged(log, d, req, status) ==
    IF status # 200 THEN log
    ELSE [c \in DOMAIN log |->
             IF c \in LockTargets(d, req) THEN Append(log[c], LockWord(req)) ELSE log[c]]

InitLock ==
    /\ db = [states |-> [ST1 |-> StateRow("n0", STATE_USER, FALSE),
                         ST2 |-> StateRow("n0", Null, FALSE)],
             lgas |-> [L1 |-> ScopedRow("n0", "ST1")],
             custodians |-> EmptyTable,
             schools |-> [S1 |-> SchoolRow("n0", "ST1", Null, UNACCREDITED, NullDate),
                          S2 |-> SchoolRow("n0", "ST2", Null, UNACCREDITED, NullDate)],
             bece_schools |-> [B1 |-> SchoolRow("n0", "ST1", Null, UNACCREDITED, NullDate)],
             users |-> (STATE_USER :> UserRow(SeedHash("h2"), ROLE_STATE, "ST1", TRUE))
                       @@ SeedUsers]
    /\ today = AccessToday
    /\ alerts = {}
    /\ creds = {}
    /\ lastPass = NoPass
    /\ lastReq = NoReq
    /\ npasses = 0
    /\ nreqs = 0
    /\ procs = NoProcs
    /\ smtp = TRUE

\* POST /states/lock and /states/unlock for one state or for all, and
\* PUT /states/{code} with is_locked.
LockRequests(user) ==
    UNION {{Req(op, user, Null, sc, NoBody) : op \in LockOps, sc \in StateParams},
           {Req("update_state", user, "ST1", Null, [is_locked |-> b]) : b \in BOOLEAN}}

\* The writes of a state user: to its own school, LGA and state, and to a
\* school of another state.
StateUserWrites(user) ==
    {Req("update_school", user, "S1", Null, [name |-> "n1"]),
     Req("update_school", user, "S2", Null, [name |-> "n1"]),
     Req("update_bece_school", user, "B1", Null, [name |-> "n1"]),
     Req("create_lga", user, "L3", Null, ScopedRow("n0", "ST1")),
     Req("delete_lga", user, "L1", Null, NoBody),
     Req("update_state", user, "ST1", Null, [name |-> "n1"])}

ApplyLockReq(req, u, r) ==
    /\ db' = r.db
    /\ creds' = SetUnion(creds, r.mail)
    /\ lastReq' = [op |-> req.op, req |-> req, caller |-> u, status |-> r.status,
                   detail |-> r.detail, rows |-> r.rows, mail |-> r.mail, before |-> db,
                   locks_before |-> LockLog,
                   locks |-> Logged(LockLog, db, req, r.status)]
    /\ nreqs' = nreqs + 1
    /\ UNCHANGED <<today, alerts, lastPass, npasses, procs, smtp>>

\* The administrator locks or unlocks.
LockRequest ==
    /\ nreqs < MaxLockReqs
    /\ \E req \in LockRequests(ADMIN_EMAIL) :
          ApplyLockReq(req, db.users[ADMIN_EMAIL], Handle(db, db.users[ADMIN_EMAIL], req, today))

\* The state user of ST1 writes.
StateUserWrite ==
    /\ nreqs < MaxLockReqs
    /\ \E req \in StateUserWrites(STATE_USER) :
          ApplyLockReq(req, db.users[STATE_USER], Handle(db, db.users[STATE_USER], req, today))

NextLock == LockRequest \/ StateUserWrite

SpecLock == InitLock /\ [][NextLock]_vars

\* --- passes and the writes of accreditation fields -----------------------
RenewalCycles == {<<ACCREDITED, D1>>, <<UNACCREDITED, NullDate>>}

InitRenewal ==
    /\ \E c1, c2 \in RenewalCycles :
          db = [states |-> LifecycleStates,
                lgas |-> EmptyTable,
                custodians |-> EmptyTable,
                schools |-> [S1 |-> SchoolRow("School 1", "ST1", Null, c1[1], c1[2])],
                bece_schools |-> [B1 |-> SchoolRow("BECE 1", "ST1", Null, c2[1], c2[2])],
                users |-> SeedUsers]
    /\ today \in {[y |-> 2024, m |-> 1, d |-> 12], [y |-> 2025, m |-> 1, d |-> 10]}
    /\ alerts = {}
    /\ creds = {}
    /\ lastPass = NoPass
    /\ lastReq = NoReq
    /\ npasses = 0
    /\ nreqs = 0
    /\ procs = NoProcs
    /\ smtp = TRUE

\* SchoolUpdate / BECESchoolUpdate bodies that set accreditation fields; a
\* field sent as null is set (exclude_unset keeps it).
RenewalUpdates ==
    {[accreditation_status |-> ACCREDITED], [accreditation_status |-> UNACCREDITED],
     [accredited_date |-> NullDate],
     [accreditation_status |-> ACCREDITED, accredited_date |-> D2]}

RenewalCreates ==
    {SchoolRow("n0", "ST1", Null, ACCREDITED, NullDate),
     SchoolRow("n0", "ST1", Null, ACCREDITED, D1),
     SchoolRow("n0", "ST1", Null, UNACCREDITED, NullDate)}

RenewalWrites(user) ==
    UNION {{Req("update_school", user, "S1", Null, b) : b \in RenewalUpdates},
           {Req("update_bece_school", user, "B1", Null, b) : b \in RenewalUpdates},
           {Req("create_school", user, "S3", Null, b) : b \in RenewalCreates},
           {Req("create_bece_school", user, "B3", Null, b) : b \in RenewalCreates}}

\* The administrator creates or updates a school or BECE school.
RenewalWrite ==
    /\ nreqs < MaxWrites
    /\ \E req \in RenewalWrites(ADMIN_EMAIL) :
          ApplyReq(req, db.users[ADMIN_EMAIL], Handle(db, db.users[ADMIN_EMAIL], req, today))

NextRenewal == check_accreditation \/ RenewalWrite

SpecRenewal == InitRenewal /\ [][NextRenewal]_vars

\* --- a lock request while a state user's update is in progress -----------
\* A request in progress: its position, its answer, and whether the
\* caller's state was locked in the database when the request committed.
LockProc(pc, req, status, locked) ==
    [pc |-> pc, req |-> req, status |-> status, locked |-> locked]

\* Worker 1 serves the state user's update, worker 2 the administrator's
\* lock or unlock.
RaceUpdates ==
    {Req("update_school", STATE_USER, "S1", Null, [name |-> "n1"]),
     Req("update_school", STATE_USER, "S1", Null, [accreditation_status |-> ACCREDITED]),
     Req("update_school", STATE_USER, "S2", Null, [name |-> "n1"]),
     Req("update_bece_school", STATE_USER, "B1", Null, [name |-> "n1"])}

RaceLocks ==
    {Req("lock_states", ADMIN_EMAIL, Null, "ST1", NoBody),
     Req("lock_states", ADMIN_EMAIL, Null, Null, NoBody),
     Req("lock_states", ADMIN_EMAIL, Null, "ST2", NoBody),
     Req("unlock_states", ADMIN_EMAIL, Null, "ST1", NoBody)}

InitLockRace ==
    /\ \E locked \in BOOLEAN :
          db = [states |-> [ST1 |-> StateRow("n0", STATE_USER, locked),
                            ST2 |-> StateRow("n0", Null, FALSE)],
                lgas |-> EmptyTable, custodians |-> EmptyTable,
                schools |-> [S1 |-> SchoolRow("n0", "ST1", Null, UNACCREDITED, NullDate),
                             S2 |-> SchoolRow("n0", "ST2", Null, UNACCREDITED, NullDate)],
                bece_schools |-> [B1 |-> SchoolRow("n0", "ST1", Null, UNACCREDITED, NullDate)],
                users |-> (STATE_USER :> UserRow(SeedHash("h2"), ROLE_STATE, "ST1", TRUE))
                          @@ SeedUsers]
    /\ \E r1 \in RaceUpdates, r2 \in RaceLocks :
          procs = (1 :> LockProc("start", r1, 0, FALSE)) @@ (2 :> LockProc("start", r2, 0, FALSE))
    /\ today = AccessToday
    /\ alerts = {}
    /\ creds = {}
    /\ lastPass = NoPass
    /\ lastReq = NoReq
    /\ npasses = 0
    /\ nreqs = 0
    /\ smtp = TRUE

\* The dependencies of update_school are solved on the database as it is
\* now: check_state_not_locked, then check_role (Guard); the function is
\* entered later.
SolveDependencies(w) ==
    /\ procs[w].pc = "start"
    /\ procs[w].req.op \in {"update_school", "update_bece_school"}
    /\ procs' = [procs EXCEPT ![w] =
                    IF Guard(db, db.users[procs[w].req.user], TRUE, AdminHqState,
                             Ok({}, db, {})).status = 200
                    THEN LockProc("solved", procs[w].req, 0, FALSE)
                    ELSE LockProc("done", procs[w].req, 403, FALSE)]
    /\ UNCHANGED <<db, today, alerts, creds, lastPass, lastReq, npasses, nreqs, smtp>>

\* The function has run and committed with response r.
Entered(w, u, r) ==
    /\ db' = r.db
    /\ creds' = SetUnion(creds, r.mail)
    /\ procs' = [procs EXCEPT ![w] = LockProc("done", procs[w].req, r.status,
                                              IsLockedOut(db, u))]

\* The function update_school runs on the database as it is now and commits.
EnterHandler(w) ==
    /\ procs[w].pc = "solved"
    /\ Entered(w, db.users[procs[w].req.user],
               UpdateSchoolHandler(db, db.users[procs[w].req.user],
                                   TableOf[procs[w].req.op], procs[w].req.code,
                                   procs[w].req.p, today))
    /\ UNCHANGED <<today, alerts, lastPass, lastReq, npasses, nreqs, smtp>>

\* lock_states / unlock_states: one query and one commit.
CommitLock(w) ==
    /\ procs[w].pc = "start"
    /\ procs[w].req.op \in LockOps
    /\ db' = Handle(db, db.users[procs[w].req.user], procs[w].req, today).db
    /\ procs' = [procs EXCEPT ![w] =
                    LockProc("done", procs[w].req,
                             Handle(db, db.users[procs[w].req.user], procs[w].req, today).status,
                             FALSE)]
    /\ UNCHANGED <<today, alerts, creds, lastPass, lastReq, npasses, nreqs, smtp>>

NextLockRace == \E w \in Workers : SolveDependencies(w) \/ EnterHandler(w) \/ CommitLock(w)

SpecLockRace == InitLockRace /\ [][NextLockRace]_vars

(***************************************************************************)
(* Claims about the lifecycle pass                                         *)
(***************************************************************************)
ThresholdLabels == {"1 Year", "6 Months", "3 Months", "2 Months", "1 Month"}

\* The day-count the spec gives each threshold label.
DayCount(label) ==
    CASE label = "1 Year" -> 365
      [] label = "6 Months" -> 182
      [] label = "3 Months" -> 91
      [] label = "2 Months" -> 61
      [] label = "1 Month" -> 30

\* a >= b as calendar dates, field by field.
LexGeq(a, b) ==
    \/ a.y > b.y
    \/ a.y = b.y /\ a.m > b.m
    \/ a.y = b.y /\ a.m = b.m /\ a.d >= b.d

\* The schools the last pass loaded with a date that parses.
Classified ==
    {s \in DOMAIN lastPass.before :
        /\ lastPass.before[s].accreditation_status = ACCREDITED
        /\ TruthyDate(lastPass.before[s].accredited_date)
        /\ fromisoformat(lastPass.before[s].accredited_date).ok}

\* The schools the last pass loaded with a date that does not parse.
Malformed ==
    {s \in DOMAIN lastPass.before :
        /\ lastPass.before[s].accreditation_status = ACCREDITED
        /\ TruthyDate(lastPass.before[s].accredited_date)
        /\ ~fromisoformat(lastPass.before[s].accredited_date).ok}

AccDateOf(s) == fromisoformat(lastPass.before[s].accredited_date).date

\* The classification of school s on the day of the last pass.
OutcomeOf(s) == Classify(lastPass.today, AccDateOf(s))

\* The messages the last pass sent about school s.
SentFor(s) == {a \in lastPass.sent : a.school = s}

\* The recipient set the spec gives an alert about a school with row `row`.
RecipientSet(row) ==
    {ADMIN_EMAIL}
        \cup (IF Truthy(row.email) THEN {row.email} ELSE {})
        \cup (IF row.state_code \in DOMAIN db.states /\ Truthy(db.states[row.state_code].email)
              THEN {db.states[row.state_code].email} ELSE {})

\* C1: within one accreditation cycle of a school (one expiry date), at most
\* one alert is sent for each threshold label, however many passes run and
\* whether or not two of them run on the same day.
C1_AtMostOneAlertPerThreshold ==
    \A a, b \in alerts :
        (a.school = b.school /\ a.expiry = b.expiry /\ a.time_left = b.time_left
            /\ a.time_left \in ThresholdLabels) => a = b

\* C2: for every accreditation date D and every day T, the pass classifies
\* Expired exactly when T >= D + 5 years, otherwise Threshold(label) exactly
\* when the days remaining are the label's day-count, otherwise NoAction;
\* whatever the school's other columns.  Spec section 8's examples hold:
\* D = 2020-01-10 is Expired on 2025-01-10 and at "1 Year" on 2024-01-11.
C2_Classification ==
    \A s \in Classified :
        LET o == lastPass.outcomes[s]
            E == AddYears(AccDateOf(s), 5)
            left == Ordinal(E) - Ordinal(lastPass.today)
            expired == LexGeq(lastPass.today, E)
        IN /\ E.y = AccDateOf(s).y + 5
           /\ (o.outcome = "Expired") <=> expired
           /\ \A l \in ThresholdLabels :
                 (o.outcome = "Threshold" /\ o.label = l) <=> (~expired /\ left = DayCount(l))
           /\ (o.outcome = "NoAction") <=>
                 (~expired /\ left \notin {DayCount(l) : l \in ThresholdLabels})
           /\ o.outcome \in {"Expired", "Threshold", "NoAction"}
           /\ (lastPass.before[s].accredited_date = D1
                 /\ lastPass.today = [y |-> 2025, m |-> 1, d |-> 10]) => o.outcome = "Expired"
           /\ (lastPass.before[s].accredited_date = D1
                 /\ lastPass.today = [y |-> 2024, m |-> 1, d |-> 11])
                 => (o.outcome = "Threshold" /\ o.label = "1 Year")

\* A pass on 2024-02-29 found a school accredited on 29 February 2020 exactly
\* 365 days before its expiry (2025-02-28).
C2_Witness ==
    /\ lastPass.n > 0
    /\ lastPass.today = [y |-> 2024, m |-> 2, d |-> 29]
    /\ "S1" \in Classified
    /\ lastPass.before["S1"].accredited_date = D2
    /\ lastPass.outcomes["S1"] = [outcome |-> "Threshold", label |-> "1 Year"]

\* C3: a school the pass classifies as Expired is Unaccredited once the pass
\* has committed, and exactly one notification, with time-left EXPIRED, was
\* issued for it, to the admin address, the school's email if present and
\* its state's email if the state exists and has one.
C3_Expired ==
    \A s \in Classified :
        OutcomeOf(s).kind = "Expired" =>
            /\ lastPass.committed
            /\ db.schools[s].accreditation_status = UNACCREDITED
            /\ Cardinality(SentFor(s)) = 1
            /\ \A a \in SentFor(s) :
                  /\ a.time_left = "EXPIRED"
                  /\ {a.to[i] : i \in 1..Len(a.to)} = RecipientSet(lastPass.before[s])

\* A pass expired a school whose alert went to all three recipients.
C3_Witness ==
    /\ lastPass.n > 0
    /\ \E s \in Classified :
          /\ OutcomeOf(s).kind = "Expired"
          /\ db.schools[s].accreditation_status = UNACCREDITED
          /\ \E a \in SentFor(s) : Len(a.to) = 3

\* C4: a school the pass classifies as Threshold(label) gets one
\* notification with that label, to the same recipient set, and keeps its
\* accreditation_status and accredited_date; a school classified NoAction
\* gets no notification and its row is unchanged.
C4_ThresholdAndNoAction ==
    \A s \in Classified :
        /\ OutcomeOf(s).kind = "Threshold" =>
              /\ Cardinality(SentFor(s)) = 1
              /\ \A a \in SentFor(s) :
                    /\ a.time_left = OutcomeOf(s).label
                    /\ {a.to[i] : i \in 1..Len(a.to)} = RecipientSet(lastPass.before[s])
              /\ db.schools[s] = lastPass.before[s]
        /\ OutcomeOf(s).kind = "NoAction" =>
              /\ SentFor(s) = {}
              /\ db.schools[s] = lastPass.before[s]

\* One pass alerted a school at a threshold and left another alone.
C4_Witness ==
    /\ lastPass.n > 0
    /\ \E s, t \in Classified :
          /\ OutcomeOf(s).kind = "Threshold"
          /\ SentFor(s) # {}
          /\ OutcomeOf(t).kind = "NoAction"

\* The database before the last pass without the schools in `drop`.
BeforeWithout(drop) ==
    [db EXCEPT !.schools = [s \in (DOMAIN lastPass.before) \ drop |-> lastPass.before[s]]]

\* C5: a pass over accredited schools some of which have a malformed
\* accredited_date completes and commits; each malformed school is skipped
\* with its row unchanged and no message; every other school ends as, and
\* is sent what, a pass over the database without the malformed schools
\* gives it, whatever the order of iteration.
C5_MalformedSkipped ==
    lastPass.n > 0 =>
        /\ lastPass.committed
        /\ \A s \in Malformed : db.schools[s] = lastPass.before[s] /\ SentFor(s) = {}
        /\ LET clean == BeforeWithout(Malformed)
               r == RunPass(clean, lastPass.today,
                            CHOOSE o \in Perms(AccreditedCodes(clean)) : TRUE, lastPass.n)
           IN \A s \in (DOMAIN lastPass.before) \ Malformed :
                 /\ db.schools[s] = r.db.schools[s]
                 /\ SentFor(s) = {a \in r.sent : a.school = s}

\* A pass met a malformed school and expired another one.
C5_Witness ==
    /\ lastPass.n > 0
    /\ Malformed # {}
    /\ \E s \in Classified : OutcomeOf(s).kind = "Expired" /\ SentFor(s) # {}

\* The schools that were Unaccredited, with an accreditation date still
\* stored, when the last pass began.
RetainedDate ==
    {s \in DOMAIN lastPass.before :
        /\ lastPass.before[s].accreditation_status = UNACCREDITED
        /\ TruthyDate(lastPass.before[s].accredited_date)}

\* C16: a school that is Unaccredited either has no accredited_date or is
\* left alone by every pass that finds it so: the pass does not load or
\* classify it, sends nothing about it and leaves its row as it was.
C16_UnaccreditedDateIgnored ==
    \A s \in DOMAIN db.schools :
        db.schools[s].accreditation_status = UNACCREDITED =>
            \/ ~TruthyDate(db.schools[s].accredited_date)
            \/ s \in RetainedDate =>
                  /\ lastPass.outcomes[s] = NotLoaded
                  /\ SentFor(s) = {}
                  /\ db.schools[s] = lastPass.before[s]

\* A first pass expired a school and alerted on it; the second pass, on or
\* after the expiry day, found it Unaccredited with its date still stored.
C16_Witness ==
    /\ lastPass.n = 2
    /\ \E s \in RetainedDate :
          /\ \E a \in alerts : a.school = s
          /\ fromisoformat(lastPass.before[s].accredited_date).ok
          /\ LexGeq(lastPass.today, AddYears(AccDateOf(s), 5))
          /\ db.schools[s].accreditation_status = UNACCREDITED

\* C23: a pass classifies every School and every BECESchool row that is
\* Accredited with a date, and no other row: every such school has the
\* outcome of its date, every other school has none and no message, and an
\* accredited BECE school whose date has expired on the day of the pass does
\* not stay Accredited.
C23_EveryEntityClassified ==
    lastPass.n > 0 =>
        /\ \A s \in Classified : lastPass.outcomes[s].outcome = OutcomeOf(s).kind
        /\ \A s \in (DOMAIN lastPass.before) \ UNION {Classified, Malformed} :
              /\ lastPass.outcomes[s].outcome \in {"NotLoaded", "Skipped"}
              /\ SentFor(s) = {}
        /\ \A b \in DOMAIN db.bece_schools :
              (/\ db.bece_schools[b].accreditation_status = ACCREDITED
               /\ TruthyDate(db.bece_schools[b].accredited_date)
               /\ fromisoformat(db.bece_schools[b].accredited_date).ok)
                 => Classify(lastPass.today,
                             fromisoformat(db.bece_schools[b].accredited_date).date).kind
                       # "Expired"

\* The alerts with label l about the cycle of school s that the last pass
\* loaded.
CycleAlerts(s, l) ==
    {a \in alerts : a.school = s /\ a.time_left = l /\ a.expiry = AddYears(AccDateOf(s), 5)}

\* Days from the last pass to the expiry of school s.
DaysLeft(s) == Ordinal(AddYears(AccDateOf(s), 5)) - Ordinal(lastPass.today)

\* C25: a pass sends a threshold alert only on the day on which the days
\* left equal the label's day-count; no alert is about a threshold day still
\* to come; and a pass that runs after a threshold day adds no alert with
\* that label for the cycle, whether or not an earlier pass sent it.
C25_ThresholdOnlyOnItsDay ==
    /\ \A a \in lastPass.sent :
          a.time_left \in ThresholdLabels =>
              Ordinal(a.expiry) - Ordinal(lastPass.today) = DayCount(a.time_left)
    /\ \A a \in alerts :
          a.time_left \in ThresholdLabels =>
              Ordinal(a.expiry) - Ordinal(today) <= DayCount(a.time_left)
    /\ \A s \in Classified : \A l \in ThresholdLabels :
          DaysLeft(s) < DayCount(l) => CycleAlerts(s, l) \cap lastPass.sent = {}

\* No pass ran on the "1 Year" day of a school; the first pass ran the day
\* after and sent nothing for it, the second ran on the "6 Months" day and
\* sent that alert only.
C25_Witness ==
    /\ lastPass.n = 2
    /\ \E s \in Classified :
          /\ DaysLeft(s) = 182
          /\ CycleAlerts(s, "6 Months") # {}
          /\ CycleAlerts(s, "1 Year") = {}
          /\ Cardinality({a \in alerts : a.school = s}) = 1

(***************************************************************************)
(* Claims about the requests                                               *)
(***************************************************************************)
\* The state a returned row belongs to.
RowState(o) == IF o.table = "states" THEN o.code ELSE o.row.state_code

\* The states whose resources request req writes to, on database d: the
\* state of the row it names, of the row it creates, or the states it locks.
TargetStates(d, req) ==
    IF req.op \in LockOps
    THEN IF Truthy(req.state_code) THEN {req.state_code} \cap DOMAIN d.states
         ELSE DOMAIN d.states
    ELSE IF req.op = "create_state" THEN {req.code}
    ELSE IF req.op \in CreateOps THEN {req.p.state_code}
    ELSE IF req.code \notin DOMAIN d[TableOf[req.op]] THEN {}
    ELSE IF TableOf[req.op] = "states" THEN {req.code}
    ELSE {d[TableOf[req.op]][req.code].state_code}

\* Database d without the rows of every state but sc.
HideOthers(d, sc) ==
    [states |-> [c \in DOMAIN d.states \cap {sc} |-> d.states[c]],
     lgas |-> [c \in {k \in DOMAIN d.lgas : d.lgas[k].state_code = sc} |-> d.lgas[c]],
     custodians |-> [c \in {k \in DOMAIN d.custodians : d.custodians[k].state_code = sc}
                        |-> d.custodians[c]],
     schools |-> [c \in {k \in DOMAIN d.schools : d.schools[k].state_code = sc} |-> d.schools[c]],
     bece_schools |-> [c \in {k \in DOMAIN d.bece_schools : d.bece_schools[k].state_code = sc}
                          |-> d.bece_schools[c]],
     users |-> d.users]

\* Database d with no state locked.
Unlocked(d) == SetLock(d, DOMAIN d.states, FALSE)

\* Returned rows, with the lock flag of state rows put aside.
UnlockRows(rows) ==
    {IF o.table = "states" THEN [o EXCEPT !.row.is_locked = FALSE] ELSE o : o \in rows}

StateCaller == lastReq.op # "none" /\ lastReq.caller.role = ROLE_STATE

\* The last request was a write by a state user whose own state was locked,
\* to a resource of that state.
LockedOwnWrite ==
    /\ StateCaller
    /\ lastReq.op \in WriteOps
    /\ IsLockedOut(lastReq.before, lastReq.caller)
    /\ lastReq.caller.state_code \in TargetStates(lastReq.before, lastReq.req)

\* The last request was a create, update or delete by a state user whose
\* own state was not locked, on a resource of that state.
UnlockedOwnWrite ==
    /\ StateCaller
    /\ lastReq.op \in UNION {CreateOps, UpdateOps, DeleteOps}
    /\ Truthy(lastReq.caller.state_code)
    /\ ~IsLockedOut(lastReq.before, lastReq.caller)
    /\ TargetStates(lastReq.before, lastReq.req) = {lastReq.caller.state_code}

Denied == lastReq.status = 403 /\ db = lastReq.before /\ lastReq.mail = {}

\* C6: a read (list, get-by-code, export) by a state user returns only rows
\* of the caller's state, the response is the same whatever rows other
\* states have, and the state_code parameter does not widen it.
C6_StateReadsNoninterference ==
    (StateCaller /\ lastReq.op \in ReadOps) =>
        /\ \A o \in lastReq.rows : RowState(o) = lastReq.caller.state_code
        /\ Handle(HideOthers(lastReq.before, lastReq.caller.state_code),
                  lastReq.caller, lastReq.req, today).status = lastReq.status
        /\ Handle(HideOthers(lastReq.before, lastReq.caller.state_code),
                  lastReq.caller, lastReq.req, today).rows = lastReq.rows
        /\ \A sc \in StateParams :
              Handle(lastReq.before, lastReq.caller,
                     [lastReq.req EXCEPT !.state_code = sc], today).rows = lastReq.rows

\* C7: a write by a state user to a resource of another state is denied and
\* changes nothing.
C7_CrossStateWriteDenied ==
    (/\ StateCaller
     /\ lastReq.op \in WriteOps
     /\ \E s \in TargetStates(lastReq.before, lastReq.req) : s # lastReq.caller.state_code)
        => Denied

C7_Witness ==
    /\ StateCaller
    /\ lastReq.op = "update_school"
    /\ lastReq.req.code \in DOMAIN lastReq.before.schools
    /\ lastReq.before.schools[lastReq.req.code].state_code # lastReq.caller.state_code
    /\ ~IsLockedOut(lastReq.before, lastReq.caller)
    /\ lastReq.detail = PERMISSION_DENIED
    /\ db = lastReq.before

C9_AdminHqIgnoreLock ==
    (lastReq.op # "none" /\ lastReq.caller.role \in AdminHq) =>
        /\ lastReq.detail # LOCKED
        /\ lastReq.status = Handle(Unlocked(lastReq.before), lastReq.caller,
                                   lastReq.req, today).status
        /\ UnlockRows(lastReq.rows) =
              UnlockRows(Handle(Unlocked(lastReq.before), lastReq.caller,
                                lastReq.req, today).rows)
        /\ Unlocked(db) = Unlocked(Handle(Unlocked(lastReq.before), lastReq.caller,
                                          lastReq.req, today).db)
        /\ lastReq.mail = Handle(Unlocked(lastReq.before), lastReq.caller,
                                 lastReq.req, today).mail

C9_Witness ==
    /\ lastReq.op = "update_lga"
    /\ lastReq.caller.role = ROLE_HQ
    /\ lastReq.caller.state_code = "ST1"
    /\ lastReq.before.states["ST1"].is_locked
    /\ lastReq.req.code = "L1"
    /\ lastReq.status = 200
    /\ db # lastReq.before

\* C10 as stated: a write by a state user to a resource of its own state,
\* when that state is not locked, is allowed, for every resource kind and
\* every operation.
C10_OwnStateWritesAllowed ==
    UnlockedOwnWrite => lastReq.status # 403

\* C10 amended: a write by a state user to a resource of its own state, when
\* that state is not locked, is allowed when it is the update of a school or
\* of a BECE school, and denied for want of role otherwise (every create and
\* delete, and every write to a state, an LGA or a custodian).
C10_OwnStateSchoolUpdatesAllowed ==
    UnlockedOwnWrite =>
        IF lastReq.op \in {"update_school", "update_bece_school"}
        THEN /\ lastReq.status = 200
             /\ db[TableOf[lastReq.op]][lastReq.req.code] =
                   SetAttrs(lastReq.before[TableOf[lastReq.op]][lastReq.req.code],
                            StampUpdate(lastReq.before[TableOf[lastReq.op]][lastReq.req.code],
                                        lastReq.req.p, today))
        ELSE Denied /\ lastReq.detail = NOT_ENOUGH_PERMISSIONS

C10_Witness ==
    /\ UnlockedOwnWrite
    /\ lastReq.op = "update_bece_school"
    /\ lastReq.status = 200
    /\ db # lastReq.before

(***************************************************************************)
(* Claims about provisioning                                               *)
(***************************************************************************)
\* The last two calls of the helper named the same email, which no user had
\* before the first of them.
TwiceForNewEmail ==
    /\ lastReq.op = "provision"
    /\ lastReq.prev.op = "provision"
    /\ lastReq.prev.email = lastReq.email
    /\ lastReq.email \notin DOMAIN lastReq.prev.before.users

\* C11: the helper called twice in sequence with an email no user has: the
\* first call creates a user and returns a generated password, the second
\* creates nothing and returns none, and one user row holds the email.
C11_SecondCallUpdates ==
    TwiceForNewEmail =>
        /\ lastReq.prev.password # None
        /\ lastReq.prev.mail # {}
        /\ DOMAIN lastReq.before.users = DOMAIN lastReq.prev.before.users \cup {lastReq.email}
        /\ lastReq.password = None
        /\ lastReq.mail = {}
        /\ DOMAIN db.users = DOMAIN lastReq.before.users
        /\ Cardinality(DOMAIN db.users) = Cardinality(DOMAIN lastReq.prev.before.users) + 1
        /\ db.users[lastReq.email].hashed_password =
              lastReq.before.users[lastReq.email].hashed_password

C11_Witness ==
    /\ TwiceForNewEmail
    /\ lastReq.state_code # lastReq.prev.state_code
    /\ db.users[lastReq.email].state_code = lastReq.state_code

\* C14: when the helper finds a user for the email, that user's state_code
\* becomes the supplied code, no email is sent, no password is generated,
\* the user's hashed_password, role and is_active and the number of user
\* rows are unchanged.
C14_UpdatePathFrame ==
    (lastReq.op = "provision" /\ lastReq.email \in DOMAIN lastReq.before.users) =>
        /\ db.users[lastReq.email].state_code = lastReq.state_code
        /\ lastReq.mail = {}
        /\ lastReq.password = None
        /\ db.users[lastReq.email].hashed_password =
              lastReq.before.users[lastReq.email].hashed_password
        /\ db.users[lastReq.email].role = lastReq.before.users[lastReq.email].role
        /\ db.users[lastReq.email].is_active = lastReq.before.users[lastReq.email].is_active
        /\ Cardinality(DOMAIN db.users) = Cardinality(DOMAIN lastReq.before.users)

C14_Witness ==
    /\ lastReq.op = "provision"
    /\ lastReq.email = NEW_EMAIL
    /\ lastReq.email \in DOMAIN lastReq.before.users
    /\ lastReq.before.users[NEW_EMAIL].state_code = "ST2"
    /\ ~lastReq.before.users[NEW_EMAIL].is_active
    /\ db.users[NEW_EMAIL].state_code = "ST1"

\* Both requests in flight introduce the same email, which no user had.
SameNewEmail ==
    /\ DOMAIN procs = Workers
    /\ procs[1].req.p.email = procs[2].req.p.email
    /\ procs[1].req.p.email \notin {ADMIN_EMAIL, HQ_EMAIL}
    /\ \E w \in Workers : procs[w].path = "create"

\* C12: two concurrent writes that introduce the same new email never both
\* take the helper's create path (generating and sending a password), and
\* the email never has more than one user row.
C12_NoDoubleCreate ==
    SameNewEmail =>
        /\ ~(procs[1].path = "create" /\ procs[2].path = "create")
        /\ Cardinality({e \in DOMAIN db.users : e = procs[1].req.p.email}) <= 1

\* C13: the request that loses the race on the unique email is completed as
\* an update (the stored user gets its state code) and answers success.
C13_LoserRetriesAsUpdate ==
    SameNewEmail =>
        \A w \in Workers :
            procs[w].pc = "done" =>
                /\ procs[w].status = 200
                /\ (\A v \in Workers : procs[v].pc = "done") =>
                      db.users[procs[w].req.p.email].state_code \in
                          {OwnerOf(procs[v].req) : v \in Workers}

\* C19: a request by a 'state'-role user leaves the accreditation_status and
\* the accredited_date of every school as they were.
C19_StateUserLeavesAccreditation ==
    (lastReq.op # "none" /\ lastReq.caller.role = ROLE_STATE) =>
        \A s \in (DOMAIN db.schools) \cap (DOMAIN lastReq.before.schools) :
            /\ db.schools[s].accreditation_status = lastReq.before.schools[s].accreditation_status
            /\ db.schools[s].accredited_date = lastReq.before.schools[s].accredited_date

\* The last request was a write by a state user to a resource of another
\* state.
CrossStateWrite ==
    /\ StateCaller
    /\ lastReq.op \in WriteOps
    /\ \E s \in TargetStates(lastReq.before, lastReq.req) : s # lastReq.caller.state_code

\* C22: a denied write answers 403 with one of the three reasons, and the
\* reason is that of the first rule that applies: a state user whose state
\* is locked and who updates a school of another state is told 'permission
\* denied' (cross-jurisdiction), not 'locked'.
C22_FirstApplicableReason ==
    /\ (lastReq.op \in WriteOps /\ lastReq.status = 403) =>
          lastReq.detail \in {NOT_ENOUGH_PERMISSIONS, PERMISSION_DENIED, LOCKED}
    /\ (/\ CrossStateWrite
        /\ lastReq.op \in {"update_school", "update_bece_school"}
        /\ IsLockedOut(lastReq.before, lastReq.caller))
          => (Denied /\ lastReq.detail = PERMISSION_DENIED)

\* The last request was a write by a state user.
StateUserWrote == StateCaller /\ lastReq.op \in WriteOps

\* The most recent committed lock or unlock of the caller's state before the
\* last request.
LastLock ==
    IF lastReq.locks_before[lastReq.caller.state_code] = <<>> THEN "none"
    ELSE lastReq.locks_before[lastReq.caller.state_code]
             [Len(lastReq.locks_before[lastReq.caller.state_code])]

DeniedAsLocked == Denied /\ lastReq.detail = LOCKED

RowsOutside(d, t, sc) == {<<c, d[t][c]>> : c \in {k \in DOMAIN d[t] : d[t][k].state_code # sc}}

\* C28: after a successful update by a state user the updated school is
\* still in that user's state, and the rows of the other states are as they
\* were.
C28_StateUserKeepsSchoolInState ==
    (StateCaller /\ lastReq.op \in {"update_school", "update_bece_school"}
        /\ lastReq.status = 200) =>
        /\ db[TableOf[lastReq.op]][lastReq.req.code].state_code = lastReq.caller.state_code
        /\ \A t \in {"lgas", "custodians", "schools", "bece_schools"} :
              RowsOutside(db, t, lastReq.caller.state_code)
                  = RowsOutside(lastReq.before, t, lastReq.caller.state_code)

(***************************************************************************)
(* Claims about the users behind contact e-mails                           *)
(***************************************************************************)
ContactTables == {"states", "schools", "bece_schools"}

ContactCreates == {"create_state", "create_school", "create_bece_school"}

ContactUpdates == {"update_state", "update_school", "update_bece_school"}

\* The request was a create or an update of a state, school or BECE school
\* that succeeded.
ContactWriteServed ==
    /\ lastReq.op \in UNION {ContactCreates, ContactUpdates}
    /\ lastReq.status = 200

\* The e-mail the request carried, if any.
SentEmail == Get(lastReq.req.p, "email", Null)

\* The e-mail stored on the row before an update.
StoredEmail == lastReq.before[TableOf[lastReq.op]][lastReq.req.code].email

UsersAsBefore == db.users = lastReq.before.users /\ lastReq.mail = {}

\* C15: an update of a state, school or BECE school that omits the e-mail or
\* carries the stored one leaves every user as it was and sends no
\* credentials; a create or update changes a user or sends credentials only
\* when it carries a non-empty e-mail that the row did not have.
C15_ProvisionOnlyOnNewEmail ==
    ContactWriteServed =>
        /\ (lastReq.op \in ContactUpdates /\ ("email" \notin DOMAIN lastReq.req.p \/ SentEmail = StoredEmail))
              => UsersAsBefore
        /\ ~UsersAsBefore =>
              /\ Truthy(SentEmail)
              /\ lastReq.op \in ContactUpdates => SentEmail # StoredEmail

\* An update moved a school to another state and repeated its stored e-mail,
\* which has a user.
C15_Witness ==
    /\ ContactWriteServed
    /\ lastReq.op = "update_school"
    /\ DOMAIN lastReq.req.p = {"email", "state_code"}
    /\ SentEmail = StoredEmail
    /\ SentEmail \in DOMAIN db.users
    /\ db.schools[lastReq.req.code].state_code # lastReq.before.schools[lastReq.req.code].state_code

\* C17: a user has a state code exactly when its role is 'state'.
C17_StateCodeIffStateRole ==
    \A e \in DOMAIN db.users :
        Truthy(db.users[e].state_code) <=> db.users[e].role = ROLE_STATE

\* E-mails stored on states, schools and BECE schools.
ContactEmails(d) ==
    {d[t][c].email : <<t, c>> \in {tc \in ContactTables \X UNION {DOMAIN d[t] : t \in ContactTables} :
                                      tc[2] \in DOMAIN d[tc[1]] /\ Truthy(d[tc[1]][tc[2]].email)}}

\* C18: every contact e-mail stored on a state, school or BECE school has its
\* user row, and no request removes a user row.
C18_ContactEmailHasUser ==
    /\ ContactEmails(db) \subseteq DOMAIN db.users
    /\ lastReq.op # "none" => DOMAIN lastReq.before.users \subseteq DOMAIN db.users

(***************************************************************************)
(* Claims about overlapping passes                                         *)
(***************************************************************************)
\* C20: at most one invocation of check_accreditation is in its loop at any
\* time, and no school gets messages from two invocations of which one
\* began while the other was in its loop.
C20_OnePassAtATime ==
    /\ Cardinality(InLoop(procs)) <= 1
    /\ \A a, b \in alerts :
          (a.school = b.school /\ a.pass # b.pass) =>
              /\ a.pass \notin procs[b.pass].during
              /\ b.pass \notin procs[a.pass].during

(***************************************************************************)
(* Claims about the accreditation date                                     *)
(***************************************************************************)
SchoolCreates == {"create_school", "create_bece_school"}

SchoolUpdateOps == {"update_school", "update_bece_school"}

\* The last request created a school as Accredited, or updated a school
\* that was not Accredited to Accredited, and sent no accredited_date.
SetAccreditedWithoutDate ==
    /\ lastReq.op \in UNION {SchoolCreates, SchoolUpdateOps}
    /\ lastReq.status = 200
    /\ Get(lastReq.req.p, "accreditation_status", Null) = ACCREDITED
    /\ ~TruthyDate(Get(lastReq.req.p, "accredited_date", NullDate))
    /\ lastReq.op \in SchoolUpdateOps =>
          lastReq.before[TableOf[lastReq.op]][lastReq.req.code].accreditation_status
              # ACCREDITED

\* C26: after a create or update that sets a school or BECE school to
\* Accredited without an accredited_date, the stored date is the current
\* date, also when the school had been accredited before and had expired.
C26_AccreditedStampedToday ==
    SetAccreditedWithoutDate =>
        db[TableOf[lastReq.op]][lastReq.req.code].accredited_date = NowIso(today)

\* C27: every school and BECE school that is Accredited has an
\* accredited_date.
C27_AccreditedHasDate ==
    \A t \in {"schools", "bece_schools"} : \A c \in DOMAIN db[t] :
        db[t][c].accreditation_status = ACCREDITED => TruthyDate(db[t][c].accredited_date)

(***************************************************************************)
(* Claims about failed notifications                                       *)
(***************************************************************************)
\* The last request wrote a contact e-mail the row did not have: a create of
\* a new row, or an update of a stored row to another e-mail.
RegisteredEmail ==
    /\ lastReq.op \in UNION {ContactCreates, ContactUpdates}
    /\ Truthy(SentEmail)
    /\ IF lastReq.op \in ContactCreates
       THEN lastReq.req.code \notin DOMAIN lastReq.before[TableOf[lastReq.op]]
       ELSE /\ lastReq.req.code \in DOMAIN lastReq.before[TableOf[lastReq.op]]
            /\ SentEmail # StoredEmail

\* C21: whether or not the messages could be delivered, a pass commits, gives
\* every loaded school its outcome and leaves every expired school
\* Unaccredited; and a write that registers a contact e-mail answers 200 with
\* the user of that e-mail stored.
C21_FailedNotificationKeepsData ==
    /\ lastPass.n > 0 =>
          /\ lastPass.committed
          /\ \A s \in Classified :
                /\ lastPass.outcomes[s].outcome = OutcomeOf(s).kind
                /\ OutcomeOf(s).kind = "Expired" =>
                      db.schools[s].accreditation_status = UNACCREDITED
    /\ RegisteredEmail =>
          /\ lastReq.status = 200
          /\ SentEmail \in DOMAIN db.users

\* With the SMTP server down, a pass expired one school without an alert and
\* went on to a second school, and a write created a user whose credentials
\* were not delivered.
C21_Witness ==
    /\ ~smtp
    /\ lastPass.n > 0
    /\ lastPass.sent = {}
    /\ \E s, t \in Classified :
          /\ s # t
          /\ OutcomeOf(s).kind = "Expired"
          /\ db.schools[s].accreditation_status = UNACCREDITED
          /\ OutcomeOf(t).kind # "NoAction"
    /\ RegisteredEmail
    /\ SentEmail \notin DOMAIN lastReq.before.users
    /\ lastReq.mail = {}
    /\ SentEmail \in DOMAIN db.users

(***************************************************************************)
(* Claims about a lock racing a write                                      *)
(***************************************************************************)
\* C29: no update by a state user is committed with success while the
\* user's state is locked in the database, however the update and a lock
\* request interleave.
C29_NoWriteAfterLock ==
    \A w \in DOMAIN procs :
        (procs[w].pc = "done" /\ procs[w].req.op \in {"update_school", "update_bece_school"}
            /\ procs[w].status = 200) => ~procs[w].locked


(***************************************************************************)
(* Claims about the credentials e-mail                                     *)
(***************************************************************************)

\* C30: once the requests in flight are over, every credentials e-mail that
\* was sent carries a password that is valid: the user stored for its
\* address holds the hash of exactly that password.
C30_DeliveredPasswordIsStored ==
    (\A w \in DOMAIN procs : procs[w].pc = "done") =>
        \A m \in creds :
            /\ m.to \in DOMAIN db.users
            /\ db.users[m.to].hashed_password = get_password_hash(m.password)

====
